---------------------------- MODULE Spec2Model ----------------------------
(***************************************************************************)
(* A model of the chart-dsl configuration and data pipeline:               *)
(*   - LRUCache and TTLCache           (data-provider/cache.ts)            *)
(*   - RestDataProvider                (data-provider/rest.ts)             *)
(*   - Resolver                        (resolver/resolver.ts)              *)
(*   - useChartConfig.loadChart        (react/useChartConfig.ts)           *)
(*   - Lexer and Parser                (vitest.setup.ts, parser/parser.ts) *)
(* Each component has its own specification (SpecLRU, SpecTTL, SpecRest,   *)
(* SpecResolver, SpecHook, SpecLexer, SpecMapper); SpecDSL runs the Lexer, *)
(* the Parser and the Resolver one after the other on a DSL text.  The     *)
(* variables of the components a specification does not run keep their     *)
(* initial value.                                                          *)
(***************************************************************************)
EXTENDS Integers, Sequences, FiniteSets, TLC

VARIABLES
  lruCache,      \* LRUCache.cache: the Map, as the sequence of its entries in Map order
  lruCapacity,   \* LRUCache.capacity
  lruRecency,    \* history: the stored keys, least recently touched first
  lruInserted,   \* history: the stored keys, in the order they entered the cache
  lruLast,       \* history: the last LRUCache call, its result and what it removed
  ttlCache,      \* TTLCache.cache: the inner LRUCache's Map of CacheEntry
  ttlCapacity,   \* capacity of the inner LRUCache
  ttlDefault,    \* TTLCache.defaultTTL
  now,           \* Date.now()
  ttlLast,       \* history: the last TTLCache call, when it was made and its result
  restConfigIn,  \* the RestProviderConfig given to the RestDataProvider constructor
  restConfig,    \* RestDataProvider.config
  restCache,     \* RestDataProvider.cache: the TTLCache's Map
  restAbort,     \* RestDataProvider.abortControllers: cacheKey -> the fetch that owns the controller
  restFetch,     \* the calls of RestDataProvider.fetch: where each one is, and what it has done
  restLast,      \* history: the last thing that happened in the provider
  chartConfig,   \* useChartConfig: the chartConfig of the last render
  loadCharts,    \* the chartConfigs of the loadChart closures created by the renders so far
  effectPending, \* the effect [configKey, loadChart] is scheduled and has not run
  renders,       \* the number of renders with a changed chartConfig
  loadIdRef,     \* loadIdRef.current
  configKeyRef,  \* configKeyRef.current
  lastSourceFingerprintRef,
  sourceVersionRef,
  hookData,      \* the state data
  hookConfig,    \* the state config
  hookError,     \* the state error
  hookLoading,   \* the state loading
  hookRuns,      \* the runs of loadChart, by loadId: where each one is
  hookLast,      \* history: the last completion of a run
  resSchemas,    \* Resolver.schemas: name -> schema
  resVariables,  \* Resolver.variables: name -> value
  resInput,      \* the schema argument of resolve
  resProps,      \* the props argument of resolve
  resPc,         \* "ready", "running" or "done"
  resStack,      \* the calls of resolveSchema in progress, the innermost last
  resVisited,    \* context.visited
  resPath,       \* context.path
  resDependencies,
  resErrors,
  resResult,     \* what resolve returned
  resSteps,      \* history: the steps taken
  lexInput,      \* Lexer.input, as the sequence of its characters
  lexPosition,   \* Lexer.position
  lexTokens,     \* the tokens of tokenize
  lexPc,         \* "idle", "scan" (in the loop of tokenize) or "done"
  parPosition,   \* Parser.position
  parNodes,      \* ast.nodes
  parConfig,     \* the config of parse
  parErrors,     \* the errors of parse
  parMetadata,   \* ast.metadata
  parPc,         \* "idle", "parse" (in the loop of parse) or "done"
  mapHeap,       \* the objects and arrays of a call of JSONPathMapper.map, by identity
  mapHeap0,      \* history: the heap when map was called
  mapData,       \* the data argument of map
  mapTable,      \* the mapping argument of map, as the sequence of its entries
  mapIndex,      \* the entry the loop of map is at
  mapResult,     \* the result of map
  mapPc,         \* "idle", "ready", "loop", "done" or "thrown"
  valInput,      \* the argument of a call on the Validator
  valResult,     \* what the call returned, or that it threw
  valPc,         \* "idle", "ready" or "done"
  mounted,       \* the chart instance is mounted
  timer,         \* the interval timer of the instance, Null when there is none
  starts         \* history: what started each run of loadChart, and when

lruVars == <<lruCache, lruCapacity, lruRecency, lruInserted, lruLast>>
ttlVars == <<ttlCache, ttlCapacity, ttlDefault, ttlLast>>
restVars == <<restConfigIn, restConfig, restCache, restAbort, restFetch, restLast>>
hookVars == <<chartConfig, loadCharts, effectPending, renders, loadIdRef, configKeyRef,
              lastSourceFingerprintRef, sourceVersionRef, hookData, hookConfig, hookError,
              hookLoading, hookRuns, hookLast>>
resVars == <<resSchemas, resVariables, resInput, resProps, resPc, resStack, resVisited, resPath,
             resDependencies, resErrors, resResult, resSteps>>
lexVars == <<lexInput, lexPosition, lexTokens, lexPc>>
parVars == <<parPosition, parNodes, parConfig, parErrors, parMetadata, parPc>>
mapVars == <<mapHeap, mapHeap0, mapData, mapTable, mapIndex, mapResult, mapPc>>
valVars == <<valInput, valResult, valPc>>
timerVars == <<mounted, timer, starts>>
vars == <<lruVars, ttlVars, now, restVars, hookVars, resVars, lexVars, parVars, mapVars,
          valVars, timerVars>>
\* what the steps of one component leave alone
otherThanLRU == <<ttlVars, now, restVars, hookVars, resVars, lexVars, parVars, mapVars, valVars, timerVars>>
otherThanTTL == <<lruVars, restVars, hookVars, resVars, lexVars, parVars, mapVars, valVars, timerVars>>
otherThanRest == <<lruVars, ttlVars, hookVars, resVars, lexVars, parVars, mapVars, valVars, timerVars>>
otherThanHook == <<lruVars, ttlVars, now, restVars, resVars, lexVars, parVars, mapVars, valVars, timerVars>>
otherThanResolver == <<lruVars, ttlVars, now, restVars, hookVars, lexVars, parVars, mapVars, valVars, timerVars>>
otherThanDSL == <<lruVars, ttlVars, now, restVars, hookVars, mapVars, valVars, timerVars>>
otherThanValidator ==
  <<lruVars, ttlVars, now, restVars, hookVars, resVars, lexVars, parVars, mapVars, timerVars>>
otherThanStream ==
  <<lruVars, ttlVars, restVars, resVars, lexVars, parVars, mapVars, valVars>>
otherThanMapper == <<lruVars, ttlVars, now, restVars, hookVars, resVars, lexVars, parVars, valVars, timerVars>>

(***************************************************************************)
(* Bounds of the model.                                                    *)
(***************************************************************************)
MaxCapacity == 3
MaxTTLCapacity == 2
MaxNow == 4
MaxFetches == 2
MaxRestNow == 2
MaxLoads == 3
MaxRenders == 2

(***************************************************************************)
(* JavaScript values.  undefined is a record of its own; a number n is     *)
(* Num(n), so that every value is a record and any two can be compared.    *)
(***************************************************************************)
Undefined == [undef |-> TRUE]
Num(n) == [n |-> n]
\* JavaScript truthiness of an optional number: undefined and 0 are falsy
TruthyNum(x) == x # Undefined /\ x.n # 0
\* A string is the sequence of its symbols (a character, or a run of identifier
\* characters kept whole); an array is the sequence of its elements; an object is
\* the function from its keys to their values.
Null == [null |-> TRUE]
Bool(b) == [b |-> b]
Str(s) == [s |-> s]
Arr(a) == [a |-> a]
Obj(o) == [o |-> o]
EmptyObj == [o |-> <<>>]
IsStr(v) == "s" \in DOMAIN v
IsNum(v) == "n" \in DOMAIN v
IsArr(v) == "a" \in DOMAIN v
IsObj(v) == "o" \in DOMAIN v
ObjKeys(v) == DOMAIN v.o
\* v[k] in JavaScript, for the values of the model
Field(v, k) == IF IsObj(v) /\ k \in ObjKeys(v) THEN v.o[k] ELSE Undefined
\* {...v, [k]: x}
ObjWith(v, k, x) == [o |-> [j \in ObjKeys(v) \cup {k} |-> IF j = k THEN x ELSE v.o[j]]]
\* JavaScript truthiness
Truthy(v) ==
  /\ v # Undefined
  /\ v # Null
  /\ v # [n |-> 0]
  /\ v # [s |-> <<>>]
  /\ v # [b |-> FALSE]
\* a || b
OrElse(a, b) == IF Truthy(a) THEN a ELSE b

(***************************************************************************)
(* The JavaScript Map: entries [k, v] in insertion order.                  *)
(***************************************************************************)
MapKeys(m) == {m[i].k : i \in 1..Len(m)}
MapHas(m, k) == k \in MapKeys(m)
MapGet(m, k) == IF MapHas(m, k) THEN m[CHOOSE i \in 1..Len(m) : m[i].k = k].v ELSE Undefined
MapDelete(m, k) == SelectSeq(m, LAMBDA e : e.k # k)
MapSet(m, k, v) ==
  IF MapHas(m, k)
    THEN [i \in 1..Len(m) |-> IF m[i].k = k THEN [k |-> k, v |-> v] ELSE m[i]]
    ELSE Append(m, [k |-> k, v |-> v])

(***************************************************************************)
(* LRUCache (cache.ts:4-74).                                               *)
(***************************************************************************)
\* a get that leaves a found entry where it is in the Map
LRUCache_get_NoTouch(m, key) == [cache |-> m, ret |-> MapGet(m, key)]

LRUCache_get(m, key) ==
  IF ~MapHas(m, key)
    THEN [cache |-> m, ret |-> Undefined]
    ELSE LET value == MapGet(m, key)
         IN [cache |-> MapSet(MapDelete(m, key), key, value), ret |-> value]

\* a set that evicts only when the Map is already over its capacity
LRUCache_set_Late(m, capacity, key, value) ==
  LET m1 == IF MapHas(m, key)
              THEN MapDelete(m, key)
              ELSE IF Len(m) > capacity
                THEN (IF Len(m) > 0 THEN MapDelete(m, m[1].k) ELSE m)
                ELSE m
  IN MapSet(m1, key, value)

LRUCache_set(m, capacity, key, value) ==
  LET m1 == IF MapHas(m, key)
              THEN MapDelete(m, key)
              ELSE IF Len(m) >= capacity
                THEN (IF Len(m) > 0 THEN MapDelete(m, m[1].k) ELSE m)
                ELSE m
  IN MapSet(m1, key, value)

LRUCache_delete(m, key) == [cache |-> MapDelete(m, key), ret |-> MapHas(m, key)]

LRUCache_clear(m) == <<>>

LRUCache_has(m, key) == MapHas(m, key)

LRUCache_size(m) == Len(m)

(***************************************************************************)
(* TTLCache (cache.ts:88-160).  An entry is                                *)
(* [data, timestamp, ttl]; t is Date.now() at the call.                    *)
(***************************************************************************)
\* a get that expires an entry one time unit early (age >= ttl)
TTLCache_get_Early(m, key, t) ==
  LET r == LRUCache_get(m, key)
      entry == r.ret
  IN IF entry = Undefined
       THEN [cache |-> r.cache, ret |-> Undefined]
       ELSE IF entry.ttl # 0 /\ t - entry.timestamp >= entry.ttl
         THEN [cache |-> LRUCache_delete(r.cache, key).cache, ret |-> Undefined]
         ELSE [cache |-> r.cache, ret |-> entry.data]

TTLCache_get(m, key, t) ==
  LET r == LRUCache_get(m, key)
      entry == r.ret
  IN IF entry = Undefined
       THEN [cache |-> r.cache, ret |-> Undefined]
       ELSE IF entry.ttl # 0 /\ t - entry.timestamp > entry.ttl
         THEN [cache |-> LRUCache_delete(r.cache, key).cache, ret |-> Undefined]
         ELSE [cache |-> r.cache, ret |-> entry.data]

TTLCache_set(m, capacity, defaultTTL, key, value, ttlArg, t) ==
  LET entry == [data |-> value,
                timestamp |-> t,
                ttl |-> IF TruthyNum(ttlArg) THEN ttlArg.n ELSE defaultTTL]
  IN LRUCache_set(m, capacity, key, entry)

TTLCache_delete(m, key) == LRUCache_delete(m, key)

TTLCache_clear(m) == LRUCache_clear(m)

TTLCache_has(m, key) ==
  LET r == LRUCache_get(m, key)
  IN [cache |-> r.cache, ret |-> r.ret # Undefined]

TTLCache_size(m) == LRUCache_size(m)


(***************************************************************************)
(* Inputs of the cache specifications.                                     *)
(***************************************************************************)
LRUKeys == {"a", "b", "c", "d"}
LRUValues == {Num(1), Num(2)}
TTLKeys == {"a", "b"}
TTLValues == {Num(1), Num(2)}
\* the optional ttl argument of TTLCache.set: absent, 0, or a duration
TTLArgs == {Undefined, Num(0), Num(1)}
\* TTLCache's default time-to-live when the constructor gets none
DefaultTTL == 3600000
\* the defaultTTL the constructor is given
TTLDefaults == {2, DefaultTTL}

NoCall == [op |-> "none"]

\* history: key k becomes the most recently touched key
Touch(seq, k) == Append(SelectSeq(seq, LAMBDA e : e # k), k)
\* history: only the keys still stored are kept
Stored(seq, m) == SelectSeq(seq, LAMBDA e : e \in MapKeys(m))
FirstOf(seq) == IF seq = <<>> THEN "" ELSE Head(seq)

\* what a call on the LRUCache did: its result and the keys it removed
LRUCall(op, key, ret, after) ==
  [op |-> op, key |-> key, ret |-> ret,
   present |-> MapHas(lruCache, key),
   sizeBefore |-> Len(lruCache),
   oldest |-> FirstOf(lruRecency),
   firstIn |-> FirstOf(lruInserted),
   removed |-> MapKeys(lruCache) \ MapKeys(after)]

LRUInit ==
  /\ lruCapacity \in 1..MaxCapacity
  /\ lruCache = <<>>
  /\ lruRecency = <<>>
  /\ lruInserted = <<>>
  /\ lruLast = NoCall

LRUIdle ==
  /\ lruCapacity = 1
  /\ lruCache = <<>>
  /\ lruRecency = <<>>
  /\ lruInserted = <<>>
  /\ lruLast = NoCall

LRUGet(key) ==
  LET r == LRUCache_get(lruCache, key)
  IN /\ lruCache' = r.cache
     /\ lruRecency' = IF r.ret # Undefined THEN Touch(lruRecency, key) ELSE lruRecency
     /\ lruInserted' = lruInserted
     /\ lruLast' = LRUCall("get", key, r.ret, r.cache)
     /\ UNCHANGED lruCapacity

LRUSet(key, value) ==
  LET after == LRUCache_set(lruCache, lruCapacity, key, value)
  IN /\ lruCache' = after
     /\ lruRecency' = Stored(Touch(lruRecency, key), after)
     /\ lruInserted' = Stored(IF MapHas(lruCache, key) THEN lruInserted
                                                      ELSE Append(lruInserted, key), after)
     /\ lruLast' = LRUCall("set", key, Undefined, after)
     /\ UNCHANGED lruCapacity

LRUDelete(key) ==
  LET r == LRUCache_delete(lruCache, key)
  IN /\ lruCache' = r.cache
     /\ lruRecency' = Stored(lruRecency, r.cache)
     /\ lruInserted' = Stored(lruInserted, r.cache)
     /\ lruLast' = LRUCall("delete", key, Undefined, r.cache)
     /\ UNCHANGED lruCapacity

LRUClear ==
  /\ lruCache' = LRUCache_clear(lruCache)
  /\ lruRecency' = <<>>
  /\ lruInserted' = <<>>
  /\ lruLast' = LRUCall("clear", "", Undefined, <<>>)
  /\ UNCHANGED lruCapacity

(***************************************************************************)
(* TTLCache calls and the clock.                                           *)
(***************************************************************************)
TTLCall(op, key, ret) ==
  [op |-> op, key |-> key, ret |-> ret,
   at |-> now,
   entry |-> MapGet(ttlCache, key),
   sizeBefore |-> TTLCache_size(ttlCache)]

TTLInit ==
  /\ ttlCapacity \in 1..MaxTTLCapacity
  /\ ttlDefault \in TTLDefaults
  /\ ttlCache = <<>>
  /\ ttlLast = NoCall

TTLIdle ==
  /\ ttlCapacity = 1
  /\ ttlDefault = DefaultTTL
  /\ ttlCache = <<>>
  /\ ttlLast = NoCall

TTLGet(key) ==
  LET r == TTLCache_get(ttlCache, key, now)
  IN /\ ttlCache' = r.cache
     /\ ttlLast' = TTLCall("get", key, r.ret)
     /\ UNCHANGED <<ttlCapacity, ttlDefault, now>>

TTLSet(key, value, ttlArg) ==
  /\ ttlCache' = TTLCache_set(ttlCache, ttlCapacity, ttlDefault, key, value, ttlArg, now)
  /\ ttlLast' = TTLCall("set", key, Undefined)
  /\ UNCHANGED <<ttlCapacity, ttlDefault, now>>

TTLHas(key) ==
  LET r == TTLCache_has(ttlCache, key)
  IN /\ ttlCache' = r.cache
     /\ ttlLast' = TTLCall("has", key, [b |-> r.ret])
     /\ UNCHANGED <<ttlCapacity, ttlDefault, now>>

TTLDelete(key) ==
  /\ ttlCache' = TTLCache_delete(ttlCache, key).cache
  /\ ttlLast' = TTLCall("delete", key, Undefined)
  /\ UNCHANGED <<ttlCapacity, ttlDefault, now>>

TTLClear ==
  /\ ttlCache' = TTLCache_clear(ttlCache)
  /\ ttlLast' = TTLCall("clear", "", Undefined)
  /\ UNCHANGED <<ttlCapacity, ttlDefault, now>>

\* time passes
Tick(max) ==
  /\ now < max
  /\ now' = now + 1

(***************************************************************************)
(* JSONPathMapper (mapper.ts).  A path is a string such as $.charts[0].x,  *)
(* here <<"$", ".", "charts", "[", "0", "]", ".", "x">>.                    *)
(***************************************************************************)
\* what a call that throws yields
Thrown == [thrown |-> TRUE]

\* String.split('.'): the runs of symbols between the dots
RECURSIVE SplitDots(_)
SplitDots(str) ==
  IF \A i \in 1..Len(str) : str[i] # "."
    THEN <<str>>
    ELSE LET d == CHOOSE i \in 1..Len(str) : str[i] = "." /\ \A j \in 1..(i - 1) : str[j] # "."
         IN <<SubSeq(str, 1, d - 1)>> \o SplitDots(SubSeq(str, d + 1, Len(str)))

\* parseInt of a run of digits, for the indexes the model uses
ParseInt(sym) == CASE sym = "0" -> 0 [] sym = "1" -> 1 [] sym = "2" -> 2 [] OTHER -> 3

\* part.match(/^(\w+)\[(\d+)\]$/)
IsIndexed(part) == Len(part) = 4 /\ part[2] = "[" /\ part[4] = "]"

\* one step of the walk of getValue: the value a part selects in current.  The
\* early "return undefined" of an indexed part that names no array is the same as
\* going on with undefined, which every later step returns.
GetPart(current, part) ==
  IF IsIndexed(part)
    THEN LET arr == Field(current, part[1])
             i == ParseInt(part[3])
         IN IF IsArr(arr) /\ i + 1 <= Len(arr.a) THEN arr.a[i + 1] ELSE Undefined
    ELSE IF Len(part) = 1 THEN Field(current, part[1]) ELSE Undefined

RECURSIVE WalkParts(_, _)
WalkParts(current, parts) ==
  IF parts = <<>> THEN current
  ELSE IF current = Null \/ current = Undefined THEN Undefined
  ELSE WalkParts(GetPart(current, Head(parts)), Tail(parts))

JSONPathMapper_getValue(obj, path) ==
  IF ~(Len(path) >= 2 /\ path[1] = "$" /\ path[2] = ".")
    THEN Thrown
    ELSE WalkParts(obj, SplitDots(SubSeq(path, 3, Len(path))))

\* typeof v === 'object'
TypeofObject(v) == IsObj(v) \/ IsArr(v) \/ v = Null

RECURSIVE SetNested(_, _, _)
SetNested(obj, parts, value) ==
  IF Len(parts) = 1
    THEN ObjWith(obj, parts[1][1], value)
    ELSE LET part == parts[1][1]
             cur == IF part \in ObjKeys(obj) /\ TypeofObject(obj.o[part])
                      THEN obj.o[part] ELSE EmptyObj
         IN IF IsObj(cur) THEN ObjWith(obj, part, SetNested(cur, Tail(parts), value))
                          ELSE ObjWith(obj, part, cur)

JSONPathMapper_setNestedValue(obj, path, value) == SetNested(obj, SplitDots(path), value)

\* the keys of an object in the order Object.entries gives them; the order is
\* fixed per set of keys
RECURSIVE KeySeq(_)
KeySeq(ks) ==
  IF ks = {} THEN <<>>
  ELSE LET k == CHOOSE x \in ks : TRUE IN <<k>> \o KeySeq(ks \ {k})

RECURSIVE MapEntries(_, _, _, _)
MapEntries(data, mapping, keys, result) ==
  IF keys = <<>> THEN result
  ELSE LET targetPath == Head(keys)
           value == JSONPathMapper_getValue(data, mapping.o[targetPath].s)
       IN IF value = Thrown THEN Thrown
          ELSE MapEntries(data, mapping, Tail(keys),
                 IF value # Undefined
                   THEN JSONPathMapper_setNestedValue(result, <<targetPath>>, value)
                   ELSE result)

\* the keys of a path table are single names here, so a target path is one part
JSONPathMapper_map(data, mapping) == MapEntries(data, mapping, KeySeq(ObjKeys(mapping)), EmptyObj)

(***************************************************************************)
(* JSONPathMapper on objects with identity.  map hands the payload's own   *)
(* objects and arrays to its result and setNestedValue writes where a      *)
(* target path leads, so what a call does to the payload shows only when   *)
(* objects are cells of a heap: a cell holds an array's elements and the   *)
(* named properties, and a value is a primitive or the reference of a      *)
(* cell.  The operators above are the same walk on values without          *)
(* identity, for the path tables whose targets are single names.           *)
(***************************************************************************)
Ref(id) == [ref |-> id]
IsRef(v) == "ref" \in DOMAIN v
EmptyCell == [isArr |-> FALSE, a |-> <<>>, f |-> <<>>]
EmptyArrayCell == [isArr |-> TRUE, a |-> <<>>, f |-> <<>>]

\* the object or array the payload was decoded to, put on the heap
RECURSIVE Load(_, _)
RECURSIVE LoadFields(_, _, _, _)
RECURSIVE LoadElems(_, _, _, _)
Load(v, heap) ==
  IF IsObj(v)
    THEN [heap |-> LoadFields(v, KeySeq(ObjKeys(v)), Len(heap) + 1, Append(heap, EmptyCell)),
          v |-> Ref(Len(heap) + 1)]
    ELSE IF IsArr(v)
      THEN [heap |-> LoadElems(v, 1, Len(heap) + 1, Append(heap, EmptyArrayCell)),
            v |-> Ref(Len(heap) + 1)]
      ELSE [heap |-> heap, v |-> v]

LoadFields(v, keys, id, heap) ==
  IF keys = <<>> THEN heap
  ELSE LET l == Load(v.o[Head(keys)], heap)
       IN LoadFields(v, Tail(keys), id,
                     [l.heap EXCEPT ![id].f = [j \in DOMAIN @ \cup {Head(keys)} |->
                                                 IF j = Head(keys) THEN l.v ELSE @[j]]])

LoadElems(v, i, id, heap) ==
  IF i > Len(v.a) THEN heap
  ELSE LET l == Load(v.a[i], heap)
       IN LoadElems(v, i + 1, id, [l.heap EXCEPT ![id].a = Append(@, l.v)])

\* a key that is the index of an element of the cell
IsIndexOf(cell, key) ==
  cell.isArr /\ key \in {"0", "1", "2"} /\ ParseInt(key) + 1 <= Len(cell.a)

\* "key in current", current an object or an array
HasProp(heap, current, key) ==
  IsIndexOf(heap[current.ref], key) \/ key \in DOMAIN heap[current.ref].f

\* current[key]; the model reads no property of a string or a number
GetProp(heap, current, key) ==
  IF ~IsRef(current) THEN Undefined
  ELSE IF IsIndexOf(heap[current.ref], key) THEN heap[current.ref].a[ParseInt(key) + 1]
  ELSE IF key \in DOMAIN heap[current.ref].f THEN heap[current.ref].f[key]
  ELSE Undefined

\* current[key] = value
SetProp(heap, current, key, value) ==
  IF IsIndexOf(heap[current.ref], key)
    THEN [heap EXCEPT ![current.ref].a[ParseInt(key) + 1] = value]
    ELSE [heap EXCEPT ![current.ref].f = [j \in DOMAIN @ \cup {key} |->
                                            IF j = key THEN value ELSE @[j]]]

\* one turn of the loop of getValue
HeapGetPart(heap, current, part) ==
  IF IsIndexed(part)
    THEN LET arr == GetProp(heap, current, part[1])
             i == ParseInt(part[3])
         IN IF IsRef(arr) /\ heap[arr.ref].isArr /\ i + 1 <= Len(heap[arr.ref].a)
              THEN heap[arr.ref].a[i + 1]
              ELSE Undefined
    ELSE IF Len(part) = 1 THEN GetProp(heap, current, part[1]) ELSE Undefined

RECURSIVE HeapWalkParts(_, _, _)
HeapWalkParts(heap, current, parts) ==
  IF parts = <<>> THEN current
  ELSE IF current = Null \/ current = Undefined THEN Undefined
  ELSE HeapWalkParts(heap, HeapGetPart(heap, current, Head(parts)), Tail(parts))

HeapGetValue(heap, obj, path) ==
  IF ~(Len(path) >= 2 /\ path[1] = "$" /\ path[2] = ".")
    THEN Thrown
    ELSE HeapWalkParts(heap, obj, SplitDots(SubSeq(path, 3, Len(path))))

\* typeof v === 'object'
TypeofHeapObject(v) == IsRef(v) \/ v = Null

\* the loop of setNestedValue and its last assignment: the heap after them.
\* "in" and an assignment on null throw a TypeError.
RECURSIVE HeapSetNested(_, _, _, _)
HeapSetNested(heap, current, parts, value) ==
  IF ~IsRef(current) THEN Thrown
  ELSE IF Len(parts) = 1 THEN SetProp(heap, current, parts[1][1], value)
  ELSE IF ~HasProp(heap, current, parts[1][1])
          \/ ~TypeofHeapObject(GetProp(heap, current, parts[1][1]))
    THEN HeapSetNested(SetProp(Append(heap, EmptyCell), current, parts[1][1], Ref(Len(heap) + 1)),
                       Ref(Len(heap) + 1), Tail(parts), value)
    ELSE HeapSetNested(heap, GetProp(heap, current, parts[1][1]), Tail(parts), value)

(***************************************************************************)
(* JSONPathMapper.map, one step for each entry of the path table.  The     *)
(* table is the sequence of its entries in the order Object.entries gives. *)
(***************************************************************************)
MapperIdle ==
  /\ mapHeap = <<>>
  /\ mapHeap0 = <<>>
  /\ mapData = Undefined
  /\ mapTable = <<>>
  /\ mapIndex = 0
  /\ mapResult = Undefined
  /\ mapPc = "idle"

\* "const result = {}"
MapCall ==
  /\ mapPc = "ready"
  /\ mapHeap' = Append(mapHeap, EmptyCell)
  /\ mapResult' = Ref(Len(mapHeap) + 1)
  /\ mapIndex' = 1
  /\ mapPc' = "loop"
  /\ UNCHANGED <<mapHeap0, mapData, mapTable>>

\* one turn of the loop
MapEntry ==
  /\ mapPc = "loop"
  /\ mapIndex <= Len(mapTable)
  /\ LET value == HeapGetValue(mapHeap, mapData, mapTable[mapIndex].source)
         set == HeapSetNested(mapHeap, mapResult, SplitDots(mapTable[mapIndex].target), value)
     IN IF value = Thrown \/ (value # Undefined /\ set = Thrown)
          THEN mapPc' = "thrown" /\ UNCHANGED <<mapHeap, mapIndex>>
          ELSE /\ mapHeap' = IF value # Undefined THEN set ELSE mapHeap
               /\ mapIndex' = mapIndex + 1
               /\ UNCHANGED mapPc
  /\ UNCHANGED <<mapHeap0, mapData, mapTable, mapResult>>

\* "return result"
MapReturn ==
  /\ mapPc = "loop"
  /\ mapIndex > Len(mapTable)
  /\ mapPc' = "done"
  /\ UNCHANGED <<mapHeap, mapHeap0, mapData, mapTable, mapIndex, mapResult>>

(***************************************************************************)
(* RestDataProvider (rest.ts).                                             *)
(***************************************************************************)
DefaultTimeout == 5000
DefaultRetryCount == 3
DefaultRetryDelay == 1000
DefaultCacheTTL == 3600000
DefaultCacheSize == 50

NumOr(x, d) == IF TruthyNum(x) THEN x.n ELSE d

RestDataProvider_constructor(config) ==
  [baseURL |-> <<>>,
   timeout |-> NumOr(config.timeout, DefaultTimeout),
   retryCount |-> NumOr(config.retryCount, DefaultRetryCount),
   retryDelay |-> NumOr(config.retryDelay, DefaultRetryDelay),
   cacheEnabled |-> config.cacheEnabled # Bool(FALSE),
   cacheTTL |-> NumOr(config.cacheTTL, DefaultCacheTTL),
   cacheSize |-> NumOr(config.cacheSize, DefaultCacheSize)]

\* String.replace(`${key}`, value): the first "$" followed by "{key}"
ReplaceDollarBrace(url, key, value) ==
  LET at == {i \in 1..(Len(url) - 1) : url[i] = "$" /\ url[i + 1] = "{" \o key \o "}"}
  IN IF at = {} THEN url
     ELSE LET i == CHOOSE x \in at : \A y \in at : x <= y
          IN SubSeq(url, 1, i - 1) \o value \o SubSeq(url, i + 2, Len(url))

\* String.replace(`{key}`, value): the first "{key}"
ReplaceBrace(url, key, value) ==
  LET at == {i \in 1..Len(url) : url[i] = "{" \o key \o "}"}
  IN IF at = {} THEN url
     ELSE LET i == CHOOSE x \in at : \A y \in at : x <= y
          IN SubSeq(url, 1, i - 1) \o value \o SubSeq(url, i + 1, Len(url))

\* params is the sequence of the entries [k, v] of the props, v a string; no
\* params and params without entries are the empty sequence
RECURSIVE SubstituteParams(_, _)
SubstituteParams(url, params) ==
  IF params = <<>> THEN url
  ELSE LET e == Head(params)
       IN SubstituteParams(ReplaceBrace(ReplaceDollarBrace(url, e.k, e.v), e.k, e.v),
                           Tail(params))

RestDataProvider_normalizeSource(source, params, baseURL) ==
  IF IsStr(source)
    THEN Obj([type |-> Str(<<"rest">>),
              url |-> Str(baseURL \o SubstituteParams(source.s, params)),
              method |-> Str(<<"GET">>)])
    ELSE IF Field(source, "type") = Str(<<"graphql">>)
      THEN Thrown
      ELSE LET spread == IF "type" \in ObjKeys(source)
                           THEN source ELSE ObjWith(source, "type", Str(<<"rest">>))
           IN ObjWith(spread, "url",
                      Str(baseURL \o SubstituteParams(Field(source, "url").s, params)))

\* String(n) of a small number
NumStr(n) == CASE n = 0 -> "0" [] n = 1 -> "1" [] n = 2 -> "2" [] n = 3 -> "3" [] OTHER -> "9"

\* JSON.stringify, as the sequence of the symbols of the JSON text; the keys of
\* an object come in the order of KeySeq
RECURSIVE JSONStringify(_)
RECURSIVE StringifyEntries(_, _)
StringifyEntries(v, keys) ==
  IF keys = <<>> THEN <<>>
  ELSE <<"\"", Head(keys), "\"", ":">> \o JSONStringify(v.o[Head(keys)])
         \o (IF Len(keys) > 1 THEN <<",">> ELSE <<>>) \o StringifyEntries(v, Tail(keys))
JSONStringify(v) ==
  IF IsObj(v) THEN <<"{">> \o StringifyEntries(v, KeySeq(ObjKeys(v))) \o <<"}">>
  ELSE IF IsNum(v) THEN <<NumStr(v.n)>>
  ELSE IF IsStr(v) THEN <<"\"">> \o v.s \o <<"\"">>
  ELSE <<"null">>

\* a cache key that leaves the cache-bust value out
RestDataProvider_getCacheKey_NoBust(source) ==
  LET method == OrElse(Field(source, "method"), Str(<<"GET">>))
  IN method.s \o <<"|">>
       \o Field(source, "url").s \o <<"|">>
       \o JSONStringify(OrElse(Field(source, "params"), EmptyObj)) \o <<"|">>
       \o JSONStringify(OrElse(Field(source, "body"), EmptyObj))

\* parts.join('|')
RestDataProvider_getCacheKey(source) ==
  LET method == OrElse(Field(source, "method"), Str(<<"GET">>))
      bust == Field(source, "_cacheBust")
  IN method.s \o <<"|">>
       \o Field(source, "url").s \o <<"|">>
       \o JSONStringify(OrElse(Field(source, "params"), EmptyObj)) \o <<"|">>
       \o JSONStringify(OrElse(Field(source, "body"), EmptyObj))
       \o (IF bust # Undefined THEN <<"|", NumStr(bust.n)>> ELSE <<>>)

RestDataProvider_applyMapping(data, mapping) ==
  LET mapped == JSONPathMapper_map(data, mapping)
  IN IF mapped = Thrown THEN Thrown
     ELSE Obj([labels |-> OrElse(OrElse(Field(mapped, "labels"), Field(data, "labels")), Arr(<<>>)),
               datasets |-> OrElse(OrElse(Field(mapped, "datasets"), Field(data, "datasets")), Arr(<<>>)),
               options |-> OrElse(Field(mapped, "options"), Field(data, "options")),
               meta |-> OrElse(Field(mapped, "meta"), Field(data, "meta"))])

(***************************************************************************)
(* The calls of RestDataProvider.fetch.  A call is at                      *)
(*   "idle"      not made yet                                              *)
(*   "request"   in fetchWithRetry, awaiting an attempt's executeRequest   *)
(*   "sleep"     in fetchWithRetry, awaiting the backoff sleep             *)
(*   "resolved"  returned result                                           *)
(*   "rejected"  threw error                                               *)
(***************************************************************************)
Jan == Arr(<<Str(<<"Jan">>)>>)
Sales == Arr(<<Obj([label |-> Str(<<"Sales">>)])>>)
\* what the server answers
RestPayloads ==
  {Obj([labels |-> Jan, datasets |-> Arr(<<>>)]),
   Obj([months |-> Jan, charts |-> Sales])}
MonthsTable == Obj([labels |-> Str(<<"$", ".", "months">>), datasets |-> Str(<<"$", ".", "charts">>)])
Get == Str(<<"GET">>)
\* the arguments of fetch: source, params (the entries of the props), mapping
RestCalls ==
  {[source |-> Str(<<"/a">>), params |-> <<>>, mapping |-> Undefined],
   [source |-> Obj([url |-> Str(<<"/a">>), method |-> Get, _cacheBust |-> Num(1)]),
    params |-> <<>>, mapping |-> Undefined],
   [source |-> Obj([url |-> Str(<<"/a">>), method |-> Get, _cacheBust |-> Num(1)]),
    params |-> <<>>, mapping |-> MonthsTable],
   [source |-> Obj([url |-> Str(<<"/a">>), method |-> Get, _cacheBust |-> Num(2)]),
    params |-> <<>>, mapping |-> Undefined],
   [source |-> Obj([url |-> Str(<<"/", "{id}">>), _cacheBust |-> Num(1)]),
    params |-> <<[k |-> "id", v |-> <<"a">>]>>, mapping |-> Undefined],
   [source |-> Obj([type |-> Str(<<"graphql">>), url |-> Str(<<"/g">>)]),
    params |-> <<>>, mapping |-> Undefined]}
\* the failures of an attempt that are not cancellations: a non-2xx status stands
\* for all of them, the catch block tells them apart from a cancellation only
RestFailures == {"HTTP"}
\* the configurations the constructor is given
NoConfig ==
  [timeout |-> Undefined, retryCount |-> Undefined, retryDelay |-> Undefined,
   cacheEnabled |-> Undefined, cacheTTL |-> Undefined, cacheSize |-> Undefined]
RestConfigs ==
  {NoConfig,
   [NoConfig EXCEPT !.retryCount = Num(0)],
   [NoConfig EXCEPT !.retryCount = Num(1)],
   [NoConfig EXCEPT !.retryCount = Num(2), !.retryDelay = Num(1)],
   [NoConfig EXCEPT !.retryCount = Num(1), !.cacheEnabled = Bool(FALSE)],
   [NoConfig EXCEPT !.retryCount = Num(1), !.cacheTTL = Num(1)],
   [NoConfig EXCEPT !.retryCount = Num(1), !.cacheEnabled = Bool(TRUE), !.cacheSize = Num(1)]}

NoEvent == [kind |-> "none", f |-> 0, at |-> 0]

IdleFetch ==
  [pc |-> "idle", source |-> Undefined, key |-> <<>>, mapping |-> Undefined,
   attempt |-> 0, lastError |-> Undefined, delay |-> 0,
   result |-> Undefined, error |-> Undefined,
   \* history: the network calls made, whether the result was stored, the call
   \* that was aborted, and the provider's last event when this fetch started
   calls |-> 0, wrote |-> FALSE, abortCall |-> 0,
   afterKind |-> "none", afterF |-> 0, withinTTL |-> FALSE]

RestError(kind, call) == [name |-> "Error", kind |-> kind, call |-> call]
AbortError(call) == [name |-> "AbortError", kind |-> "timeout", call |-> call]

RestInit ==
  /\ restConfigIn \in RestConfigs
  /\ restConfig = RestDataProvider_constructor(restConfigIn)
  /\ restCache = <<>>
  /\ restAbort = <<>>
  /\ restFetch = [f \in 1..MaxFetches |-> IdleFetch]
  /\ restLast = NoEvent

RestIdle ==
  /\ restConfigIn = Undefined
  /\ restConfig = Undefined
  /\ restCache = <<>>
  /\ restAbort = <<>>
  /\ restFetch = <<>>
  /\ restLast = NoEvent

\* executeRequest is called: one more network call is in flight
ExecuteRequest(fr) == [fr EXCEPT !.pc = "request", !.calls = @ + 1]

\* a catch block that retries a cancelled attempt like any other failure
FetchWithRetry_catch_RetryAbort(fr, error) ==
  IF fr.attempt = restConfig.retryCount
    THEN [fr EXCEPT !.lastError = error, !.pc = "rejected", !.error = error]
    ELSE [fr EXCEPT !.lastError = error, !.pc = "sleep",
                    !.delay = restConfig.retryDelay * (2 ^ fr.attempt)]

\* the catch block of fetchWithRetry, up to the await of sleep
FetchWithRetry_catch(fr, error) ==
  IF error.name = "AbortError"
    THEN [fr EXCEPT !.lastError = error, !.pc = "rejected", !.error = error]
    ELSE IF fr.attempt = restConfig.retryCount
      THEN [fr EXCEPT !.lastError = error, !.pc = "rejected", !.error = error]
      ELSE [fr EXCEPT !.lastError = error, !.pc = "sleep",
                      !.delay = restConfig.retryDelay * (2 ^ fr.attempt)]

\* "if (this.config.cacheEnabled) this.cache.set(cacheKey, mappedData)"
RestDataProvider_fetch_store(cache, key, mappedData) ==
  IF restConfig.cacheEnabled
    THEN TTLCache_set(cache, restConfig.cacheSize, restConfig.cacheTTL, key, mappedData, Undefined, now)
    ELSE cache

\* fetch, from the call to the first await
RestFetch(f, call) ==
  /\ restFetch[f].pc = "idle"
  /\ \A g \in 1..(f - 1) : restFetch[g].pc # "idle"
  /\ LET sourceConfig == RestDataProvider_normalizeSource(call.source, call.params, restConfig.baseURL)
         started == [restFetch[f] EXCEPT !.mapping = call.mapping,
                                         !.afterKind = restLast.kind, !.afterF = restLast.f,
                                         !.withinTTL = (now - restLast.at <= restConfig.cacheTTL)]
     IN IF sourceConfig = Thrown
          THEN /\ restFetch' = [restFetch EXCEPT ![f] =
                    [started EXCEPT !.pc = "rejected", !.error = RestError("graphql", 0)]]
               /\ restLast' = [kind |-> "rejected", f |-> f, at |-> now]
               /\ UNCHANGED <<restCache, restAbort>>
          ELSE LET cacheKey == RestDataProvider_getCacheKey(sourceConfig)
                   got == IF restConfig.cacheEnabled
                            THEN TTLCache_get(restCache, cacheKey, now)
                            ELSE [cache |-> restCache, ret |-> Undefined]
                   keyed == [started EXCEPT !.source = sourceConfig, !.key = cacheKey]
               IN IF Truthy(got.ret)
                    THEN /\ restFetch' = [restFetch EXCEPT ![f] =
                              [keyed EXCEPT !.pc = "resolved", !.result = got.ret]]
                         /\ restCache' = got.cache
                         /\ restLast' = [kind |-> "resolved", f |-> f, at |-> now]
                         /\ UNCHANGED restAbort
                    ELSE /\ restFetch' = [restFetch EXCEPT ![f] = ExecuteRequest(keyed)]
                         /\ restCache' = got.cache
                         /\ restAbort' = MapSet(restAbort, cacheKey, f)
                         /\ restLast' = [kind |-> "request", f |-> f, at |-> now]
  /\ UNCHANGED <<restConfigIn, restConfig, now>>

\* the attempt's response arrives with a JSON payload: fetchWithRetry returns it,
\* fetch maps it, stores it and returns
RestRespond(f, data) ==
  /\ restFetch[f].pc = "request"
  /\ LET fr == restFetch[f]
         mappedData == IF fr.mapping # Undefined /\ ObjKeys(fr.mapping) # {}
                         THEN RestDataProvider_applyMapping(data, fr.mapping)
                         ELSE data
     IN /\ restAbort' = MapDelete(restAbort, fr.key)
        /\ IF mappedData = Thrown
             THEN /\ restFetch' = [restFetch EXCEPT ![f] =
                       [fr EXCEPT !.pc = "rejected", !.error = RestError("mapping", fr.calls)]]
                  /\ restLast' = [kind |-> "rejected", f |-> f, at |-> now]
                  /\ UNCHANGED restCache
             ELSE /\ restCache' = RestDataProvider_fetch_store(restCache, fr.key, mappedData)
                  /\ restFetch' = [restFetch EXCEPT ![f] =
                       [fr EXCEPT !.pc = "resolved", !.result = mappedData, !.lastError = Undefined,
                                  !.wrote = restConfig.cacheEnabled]]
                  /\ restLast' = [kind |-> "resolved", f |-> f, at |-> now]
  /\ UNCHANGED <<restConfigIn, restConfig, now>>

\* a failure that leaves an entry in the cache when the fetch rejects
RestFail_Store(f, kind) ==
  /\ restFetch[f].pc = "request"
  /\ LET fr == FetchWithRetry_catch(restFetch[f], RestError(kind, restFetch[f].calls))
     IN /\ restFetch' = [restFetch EXCEPT ![f] = fr]
        /\ restAbort' = IF fr.pc = "rejected" THEN MapDelete(restAbort, fr.key) ELSE restAbort
        /\ restCache' = IF fr.pc = "rejected"
                           THEN RestDataProvider_fetch_store(restCache, fr.key, Null)
                           ELSE restCache
        /\ restLast' = [kind |-> fr.pc, f |-> f, at |-> now]
  /\ UNCHANGED <<restConfigIn, restConfig, now>>

\* the attempt fails: a network error, a non-2xx status, a wrong content type or
\* an undecodable body
RestFail(f, kind) ==
  /\ restFetch[f].pc = "request"
  /\ LET fr == FetchWithRetry_catch(restFetch[f], RestError(kind, restFetch[f].calls))
     IN /\ restFetch' = [restFetch EXCEPT ![f] = fr]
        /\ restAbort' = IF fr.pc = "rejected" THEN MapDelete(restAbort, fr.key) ELSE restAbort
        /\ restLast' = [kind |-> fr.pc, f |-> f, at |-> now]
  /\ UNCHANGED <<restConfigIn, restConfig, restCache, now>>

\* the attempt is aborted (the timeout controller fires): the network call
\* rejects with an AbortError
RestAbortAttempt(f) ==
  /\ restFetch[f].pc = "request"
  /\ LET fr == FetchWithRetry_catch([restFetch[f] EXCEPT !.abortCall = restFetch[f].calls],
                                    AbortError(restFetch[f].calls))
     IN /\ restFetch' = [restFetch EXCEPT ![f] = fr]
        /\ restAbort' = IF fr.pc = "rejected" /\ fr.error.name # "AbortError"
                          THEN MapDelete(restAbort, fr.key) ELSE restAbort
        /\ restLast' = [kind |-> fr.pc, f |-> f, at |-> now]
  /\ UNCHANGED <<restConfigIn, restConfig, restCache, now>>

\* the backoff sleep ends: the next attempt starts
RestWake(f) ==
  /\ restFetch[f].pc = "sleep"
  /\ restFetch' = [restFetch EXCEPT ![f] = ExecuteRequest([@ EXCEPT !.attempt = @ + 1])]
  /\ restLast' = [kind |-> "request", f |-> f, at |-> now]
  /\ UNCHANGED <<restConfigIn, restConfig, restCache, restAbort, now>>

(***************************************************************************)
(* useChartConfig (useChartConfig.ts): one chart instance.  A run of       *)
(* loadChart is at                                                         *)
(*   "idle"    not started                                                 *)
(*   "fetch"   awaiting adapter.fetch                                      *)
(*   "create"  awaiting ChartJSAdapter.createConfig                        *)
(*   "done"    returned                                                    *)
(***************************************************************************)
\* the chartConfig props of the renders: schema.source ("" for none), schema.type,
\* whether the resolver reports errors for the schema, and a callback of the
\* schema, which JSON.stringify leaves out of the configKey
ChartConfigs ==
  {[source |-> "/a", type |-> "bar", errors |-> FALSE, callback |-> 1],
   [source |-> "/a", type |-> "bar", errors |-> FALSE, callback |-> 2],
   [source |-> "/b", type |-> "line", errors |-> FALSE, callback |-> 1],
   [source |-> "", type |-> "pie", errors |-> FALSE, callback |-> 1],
   [source |-> "/a", type |-> "bar", errors |-> TRUE, callback |-> 1],
   [source |-> "/b", type |-> "line", errors |-> TRUE, callback |-> 1],
   [source |-> "/a", type |-> "gauge", errors |-> FALSE, callback |-> 1]}

\* ChartJSAdapter.isSupportedType
SupportedTypes == {"bar", "line", "pie", "doughnut", "radar", "scatter", "bubble"}

\* the useMemo of configKey: JSON.stringify of schema, overrides, theme, params
\* and _builderState; a function-valued property does not show in it
ConfigKey(c) == [source |-> c.source, type |-> c.type, errors |-> c.errors]

\* cacheBust is the _cacheBust the run gave its source, 0 before it has
IdleRun ==
  [pc |-> "idle", loadId |-> 0, startConfigKey |-> Null, chartConfig |-> Null, chartData |-> Null,
   cacheBust |-> 0]

NoSettle == [op |-> "none"]

HookInitOf(configs) ==
  /\ chartConfig \in configs
  /\ loadCharts = {chartConfig}
  /\ effectPending = TRUE
  /\ renders = 0
  /\ loadIdRef = 0
  /\ configKeyRef = ConfigKey(chartConfig)
  /\ lastSourceFingerprintRef = ""
  /\ sourceVersionRef = 0
  /\ hookData = Null
  /\ hookConfig = Null
  /\ hookError = Null
  /\ hookLoading = TRUE
  /\ hookRuns = [r \in 1..MaxLoads |-> IdleRun]
  /\ hookLast = NoSettle

HookInit == HookInitOf(ChartConfigs)

HookIdle ==
  /\ chartConfig = Null
  /\ loadCharts = {}
  /\ effectPending = FALSE
  /\ renders = 0
  /\ loadIdRef = 0
  /\ configKeyRef = Null
  /\ lastSourceFingerprintRef = ""
  /\ sourceVersionRef = 0
  /\ hookData = Null
  /\ hookConfig = Null
  /\ hookError = Null
  /\ hookLoading = FALSE
  /\ hookRuns = <<>>
  /\ hookLast = NoSettle

\* a guard that looks at the sequence number only
StaleRun_IgnoreConfigKey(run, latest, key) == run.loadId # latest

\* "if (loadId !== loadIdRef.current) return; if (configKeyRef.current !==
\* startConfigKey) return;" of the try block and of the catch block
StaleRun(run, latest, key) == run.loadId # latest \/ key # run.startConfigKey

\* a finally block that clears the flag whichever run ends
Finally_AnyRun(run, latest, loading) == FALSE

\* "if (loadId === loadIdRef.current) setLoading(false)": the state loading
\* after the finally block
Finally(run, latest, loading) == IF run.loadId = latest THEN FALSE ELSE loading

\* an end of a run whose catch block sets the error only
Settle_KeepData(run, ok, value, latest, key) ==
  /\ IF StaleRun(run, latest, key)
       THEN UNCHANGED <<hookData, hookConfig, hookError>>
       ELSE IF ok
         THEN hookError' = Null /\ hookData' = value.data /\ hookConfig' = value.config
         ELSE hookError' = value /\ UNCHANGED <<hookData, hookConfig>>
  /\ hookLoading' = Finally(run, latest, hookLoading)
  /\ hookRuns' = [hookRuns EXCEPT ![run.loadId] = [run EXCEPT !.pc = "done"]]
  /\ hookLast' = [op |-> "settle", loadId |-> run.loadId, latest |-> latest,
                  startConfigKey |-> run.startConfigKey, configKey |-> key,
                  ok |-> ok, value |-> value,
                  before |-> <<hookData, hookConfig, hookError>>,
                  after |-> <<hookData', hookConfig', hookError'>>]

\* the end of a run: the guarded writes of the try block (ok) or of the catch
\* block, then the finally block
Settle(run, ok, value, latest, key) ==
  /\ IF StaleRun(run, latest, key)
       THEN UNCHANGED <<hookData, hookConfig, hookError>>
       ELSE IF ok
         THEN hookError' = Null /\ hookData' = value.data /\ hookConfig' = value.config
         ELSE hookError' = value /\ hookData' = Null /\ hookConfig' = Null
  /\ hookLoading' = Finally(run, latest, hookLoading)
  /\ hookRuns' = [hookRuns EXCEPT ![run.loadId] = [run EXCEPT !.pc = "done"]]
  /\ hookLast' = [op |-> "settle", loadId |-> run.loadId, latest |-> latest,
                  startConfigKey |-> run.startConfigKey, configKey |-> key,
                  ok |-> ok, value |-> value,
                  before |-> <<hookData, hookConfig, hookError>>,
                  after |-> <<hookData', hookConfig', hookError'>>]

HookFailure(reason, loadId) == [name |-> "Error", message |-> reason, loadId |-> loadId]
ChartData(c, bust) == [labels |-> c.source, bust |-> bust]
EmptyChartData == [labels |-> "", bust |-> 0]

\* loadChart of the closure over c, from the call to its first await, or to its
\* end when it throws before
LoadChart(c) ==
  /\ loadIdRef < MaxLoads
  /\ LET loadId == loadIdRef + 1
         run == [IdleRun EXCEPT !.loadId = loadId, !.startConfigKey = configKeyRef,
                                !.chartConfig = c]
         changed == c.source # lastSourceFingerprintRef
     IN /\ loadIdRef' = loadId
        /\ IF c.errors
             THEN /\ Settle(run, FALSE, HookFailure("Configuration errors", loadId), loadId, configKeyRef)
                  /\ UNCHANGED <<lastSourceFingerprintRef, sourceVersionRef>>
             ELSE IF c.source # ""
               THEN /\ lastSourceFingerprintRef' = c.source
                    /\ sourceVersionRef' = IF changed THEN sourceVersionRef + 1 ELSE sourceVersionRef
                    /\ hookLoading' = TRUE
                    /\ hookError' = Null
                    /\ hookRuns' = [hookRuns EXCEPT ![loadId] =
                          [run EXCEPT !.pc = "fetch", !.cacheBust = sourceVersionRef']]
                    /\ UNCHANGED <<hookData, hookConfig, hookLast>>
               ELSE IF c.type \notin SupportedTypes
                 THEN /\ Settle(run, FALSE, HookFailure("Unsupported chart type", loadId), loadId, configKeyRef)
                      /\ UNCHANGED <<lastSourceFingerprintRef, sourceVersionRef>>
                 ELSE /\ hookLoading' = TRUE
                      /\ hookError' = Null
                      /\ hookRuns' = [hookRuns EXCEPT ![loadId] =
                            [run EXCEPT !.pc = "create", !.chartData = EmptyChartData]]
                      /\ UNCHANGED <<hookData, hookConfig, hookLast,
                                     lastSourceFingerprintRef, sourceVersionRef>>
  /\ UNCHANGED <<chartConfig, loadCharts, renders, configKeyRef>>

\* a render with a new chartConfig prop: configKeyRef.current = configKey, and
\* the effect is scheduled, its dependency loadChart having changed.  React runs
\* the scheduled effects before it renders again.
Render(c) ==
  /\ renders < MaxRenders
  /\ ~effectPending
  /\ c # chartConfig
  /\ chartConfig' = c
  /\ loadCharts' = loadCharts \cup {c}
  /\ configKeyRef' = ConfigKey(c)
  /\ effectPending' = TRUE
  /\ renders' = renders + 1
  /\ UNCHANGED <<loadIdRef, lastSourceFingerprintRef, sourceVersionRef, hookData, hookConfig,
                 hookError, hookLoading, hookRuns, hookLast>>

\* useEffect(() => { loadChart(); }, [configKey, loadChart])
Effect ==
  /\ effectPending
  /\ LoadChart(chartConfig)
  /\ effectPending' = FALSE

\* refetch() of some render, or the interval timer's () => loadChart()
Refetch(c) ==
  /\ c \in loadCharts
  /\ LoadChart(c)
  /\ UNCHANGED effectPending

\* adapter.fetch resolves; the chart type is tested next
FetchResolve(r) ==
  /\ hookRuns[r].pc = "fetch"
  /\ LET run == hookRuns[r]
     IN IF run.chartConfig.type \notin SupportedTypes
          THEN Settle(run, FALSE, HookFailure("Unsupported chart type", r), loadIdRef, configKeyRef)
          ELSE /\ hookRuns' = [hookRuns EXCEPT ![r] =
                     [run EXCEPT !.pc = "create", !.chartData = ChartData(run.chartConfig, r)]]
               /\ UNCHANGED <<hookData, hookConfig, hookError, hookLoading, hookLast>>
  /\ UNCHANGED <<chartConfig, loadCharts, effectPending, renders, loadIdRef, configKeyRef,
                 lastSourceFingerprintRef, sourceVersionRef>>

\* adapter.fetch rejects
FetchReject(r) ==
  /\ hookRuns[r].pc = "fetch"
  /\ Settle(hookRuns[r], FALSE, HookFailure("fetch", r), loadIdRef, configKeyRef)
  /\ UNCHANGED <<chartConfig, loadCharts, effectPending, renders, loadIdRef, configKeyRef,
                 lastSourceFingerprintRef, sourceVersionRef>>

\* ChartJSAdapter.createConfig resolves
CreateResolve(r) ==
  /\ hookRuns[r].pc = "create"
  /\ Settle(hookRuns[r], TRUE,
            [data |-> hookRuns[r].chartData,
             config |-> [type |-> hookRuns[r].chartConfig.type, data |-> hookRuns[r].chartData]],
            loadIdRef, configKeyRef)
  /\ UNCHANGED <<chartConfig, loadCharts, effectPending, renders, loadIdRef, configKeyRef,
                 lastSourceFingerprintRef, sourceVersionRef>>

\* ChartJSAdapter.createConfig rejects (the import of chart.js fails)
CreateReject(r) ==
  /\ hookRuns[r].pc = "create"
  /\ Settle(hookRuns[r], FALSE, HookFailure("createConfig", r), loadIdRef, configKeyRef)
  /\ UNCHANGED <<chartConfig, loadCharts, effectPending, renders, loadIdRef, configKeyRef,
                 lastSourceFingerprintRef, sourceVersionRef>>

(***************************************************************************)
(* Resolver (resolver.ts).  A schema is an object; a function-valued       *)
(* property (props) => props.name is [fn |-> name].  The entries of an     *)
(* object are visited in the order of KeySeq.                              *)
(***************************************************************************)
Fn(name) == [fn |-> name]
IsFn(v) == "fn" \in DOMAIN v

\* value(props) of the functions of the model; a property of undefined throws
CallFn(f, props) == IF props = Undefined THEN Thrown ELSE Field(props, f.fn)

\* the value processSchema stores under key
ProcessValue(key, value, props) ==
  IF key \in {"extends", "map"} THEN value
  ELSE IF key = "source"
    THEN IF IsObj(value) /\ Field(value, "type") = Str(<<"function">>)
           THEN IF /\ Field(value, "name") = Str(<<"rest">>)
                   /\ IsArr(Field(value, "args"))
                   /\ Len(Field(value, "args").a) > 0
                  THEN Field(value, "args").a[1]
                  ELSE value
           ELSE value
    ELSE IF IsFn(value)
      THEN IF CallFn(value, props) = Thrown THEN value ELSE CallFn(value, props)
      ELSE value

Resolver_processSchema(schema, props) ==
  Obj([key \in ObjKeys(schema) |-> ProcessValue(key, schema.o[key], props)])

\* a merge that lets the source's value replace the target's, objects too
Resolver_deepMerge_Shallow(target, source) ==
  Obj([key \in ObjKeys(target) \cup ObjKeys(source) |->
         IF key \notin ObjKeys(source) THEN target.o[key] ELSE source.o[key]])

RECURSIVE Resolver_deepMerge(_, _)
Resolver_deepMerge(target, source) ==
  Obj([key \in ObjKeys(target) \cup ObjKeys(source) |->
         IF key \notin ObjKeys(source) THEN target.o[key]
         ELSE IF IsObj(source.o[key]) /\ key \in ObjKeys(target) /\ IsObj(target.o[key])
           THEN Resolver_deepMerge(target.o[key], source.o[key])
           ELSE source.o[key]])

StartsWithPath(str) == Len(str) >= 2 /\ str[1] = "$" /\ str[2] = "."
StartsWithDollar(str) == Len(str) >= 1 /\ str[1] = "$"
\* context.variables.has(value.substring(1))
HasVariable(vars_, str) == Len(str) = 2 /\ str[2] \in DOMAIN vars_

VariableNotFound(value, key) ==
  [code |-> "VARIABLE_NOT_FOUND", message |-> value.s, property |-> key]

\* resolveVariables yields [config, errors]: the resolved object and the errors
\* it pushed
RECURSIVE Resolver_resolveVariables(_, _, _)
RECURSIVE ResolveEntries(_, _, _, _, _)

\* a loop body without the special case of the key map
ResolveValue_NoMap(key, value, vars_, skipJsonPath) ==
  IF skipJsonPath THEN [config |-> value, errors |-> <<>>]
  ELSE IF IsStr(value) /\ StartsWithPath(value.s) THEN [config |-> value, errors |-> <<>>]
  ELSE IF IsStr(value) /\ StartsWithDollar(value.s)
    THEN IF HasVariable(vars_, value.s)
           THEN [config |-> vars_[value.s[2]], errors |-> <<>>]
           ELSE [config |-> value, errors |-> <<VariableNotFound(value, key)>>]
    ELSE IF IsObj(value) THEN Resolver_resolveVariables(value, vars_, FALSE)
    ELSE [config |-> value, errors |-> <<>>]

\* the body of the loop of resolveVariables for one entry
ResolveValue(key, value, vars_, skipJsonPath) ==
  IF key = "map"
    THEN IF IsObj(value) THEN Resolver_resolveVariables(value, vars_, TRUE)
                         ELSE [config |-> value, errors |-> <<>>]
    ELSE IF skipJsonPath THEN [config |-> value, errors |-> <<>>]
    ELSE IF IsStr(value) /\ StartsWithPath(value.s) THEN [config |-> value, errors |-> <<>>]
    ELSE IF IsStr(value) /\ StartsWithDollar(value.s)
      THEN IF HasVariable(vars_, value.s)
             THEN [config |-> vars_[value.s[2]], errors |-> <<>>]
             ELSE [config |-> value, errors |-> <<VariableNotFound(value, key)>>]
      ELSE IF IsObj(value) THEN Resolver_resolveVariables(value, vars_, FALSE)
      ELSE [config |-> value, errors |-> <<>>]

ResolveEntries(config, keys, vars_, skipJsonPath, acc) ==
  IF keys = <<>> THEN acc
  ELSE LET r == ResolveValue(Head(keys), config.o[Head(keys)], vars_, skipJsonPath)
       IN ResolveEntries(config, Tail(keys), vars_, skipJsonPath,
                         [config |-> ObjWith(acc.config, Head(keys), r.config),
                          errors |-> acc.errors \o r.errors])

Resolver_resolveVariables(config, vars_, skipJsonPath) ==
  ResolveEntries(config, KeySeq(ObjKeys(config)), vars_, skipJsonPath,
                 [config |-> EmptyObj, errors |-> <<>>])

(***************************************************************************)
(* One call of Resolver.resolve, a step for each part of resolveSchema     *)
(* between its recursive calls.  A call of resolveSchema is at             *)
(*   "extends"  before "if (schema.extends)"                               *)
(*   "base"     in the recursive call for its base                         *)
(*   "apply"    before processSchema                                       *)
(***************************************************************************)
SchemaNames == {"A", "B", "C"}
\* what a schema's extends names: nothing, a registered schema, or none of them
ExtendsTargets == {"", "A", "B", "C", "D"}

RestCall == Obj([type |-> Str(<<"function">>), name |-> Str(<<"rest">>), args |-> Arr(<<Str(<<"/a">>)>>)])
SchemaBody(name) ==
  CASE name = "A" ->
         Obj([type |-> Str(<<"bar">>), color |-> Str(<<"$", "primary">>),
              options |-> Obj([scales |-> Obj([x |-> Num(1)]), legend |-> Str(<<"$", "missing">>)]),
              tags |-> Arr(<<Num(1), Num(2)>>),
              map |-> Obj([labels |-> Str(<<"$", ".", "months">>), x |-> Str(<<"$", "primary">>),
                           deep |-> Obj([y |-> Str(<<"$", "inmap">>)])]),
              source |-> RestCall])
    [] name = "B" ->
         Obj([title |-> Str(<<"$", ".", "title">>), color |-> Str(<<"red">>),
              options |-> Obj([scales |-> Obj([y |-> Num(2)]), plugins |-> Str(<<"$", ".", "p">>)]),
              tags |-> Arr(<<Num(3)>>)])
    [] OTHER ->
         Obj([color |-> Str(<<"$", "missing">>), items |-> Arr(<<Str(<<"$", "missing">>)>>),
              title |-> Fn("title")])
\* the schemas resolved that are not registered, without their extends
InlineBodies ==
  {EmptyObj,
   Obj([options |-> Obj([scales |-> Obj([x |-> Num(2)])]), tags |-> Arr(<<>>)]),
   Obj([color |-> Str(<<"$", "primary">>), map |-> Obj([labels |-> Str(<<"$", ".", "l">>)])]),
   \* callbacks: at the top level, under source and one level down
   Obj([title |-> Fn("title"), source |-> Fn("title"), options |-> Obj([label |-> Fn("title")])])}
WithExtends(body, name) == IF name = "" THEN body ELSE ObjWith(body, "extends", Str(<<name>>))

VariableSets == {<<>>, [primary |-> Str(<<"blue">>)]}

\* builtInThemes (segmentPalette.ts): the colors of the themes light and dark
ThemeColorNames == {"primary", "secondary", "background", "text", "success", "error", "warning"}
BuiltInThemes ==
  [light |-> [primary |-> Str(<<"#007aff">>), secondary |-> Str(<<"#32B8C6">>),
              background |-> Str(<<"#ffffff">>), text |-> Str(<<"#000000">>),
              success |-> Str(<<"#34c759">>), error |-> Str(<<"#ff3b30">>),
              warning |-> Str(<<"#ff9500">>)],
   dark |-> [primary |-> Str(<<"#32B8C6">>), secondary |-> Str(<<"#E6815F">>),
             background |-> Str(<<"#1F2121">>), text |-> Str(<<"#F5F5F5">>),
             success |-> Str(<<"#30d158">>), error |-> Str(<<"#ff453a">>),
             warning |-> Str(<<"#ff9f0a">>)]]

\* the useMemo of ChartProvider: the variable set of a theme, its keys the
\* color names behind the sigil
ChartProvider_variables(colors) ==
  [k \in {"$primary", "$secondary", "$background", "$text", "$success", "$error", "$warning"} |->
     CASE k = "$primary" -> colors.primary
       [] k = "$secondary" -> colors.secondary
       [] k = "$background" -> colors.background
       [] k = "$text" -> colors.text
       [] k = "$success" -> colors.success
       [] k = "$error" -> colors.error
       [] k = "$warning" -> colors.warning]

ProviderVariableSets == {ChartProvider_variables(BuiltInThemes[t]) : t \in {"light", "dark"}}
PropsSets == {Undefined, Obj([title |-> Str(<<"T">>)])}

Registries == {[n \in SchemaNames |-> WithExtends(SchemaBody(n), e[n])] : e \in [SchemaNames -> ExtendsTargets]}

Call(schema) ==
  [schema |-> schema, phase |-> "extends", config |-> EmptyObj,
   \* history: the config without resolveVariables, and what the base returned
   raw |-> EmptyObj, base |-> Null]

ResolverInit ==
  /\ resSchemas \in Registries
  /\ resVariables \in VariableSets \cup ProviderVariableSets
  /\ resProps \in PropsSets
  /\ resInput \in {resSchemas[n] : n \in SchemaNames}
                    \cup {WithExtends(b, e) : b \in InlineBodies, e \in ExtendsTargets}
  /\ resPc = "ready"
  /\ resStack = <<>>
  /\ resVisited = {}
  /\ resPath = <<>>
  /\ resDependencies = <<>>
  /\ resErrors = <<>>
  /\ resResult = Null
  /\ resSteps = 0

ResolverIdle ==
  /\ resSchemas = <<>>
  /\ resVariables = <<>>
  /\ resProps = Undefined
  /\ resInput = Null
  /\ resPc = "idle"
  /\ resStack = <<>>
  /\ resVisited = {}
  /\ resPath = <<>>
  /\ resDependencies = <<>>
  /\ resErrors = <<>>
  /\ resResult = Null
  /\ resSteps = 0

\* resolve, up to the call of resolveSchema
Resolve ==
  /\ resPc = "ready"
  /\ resPc' = "running"
  /\ resVisited' = {}
  /\ resPath' = <<>>
  /\ resErrors' = <<>>
  /\ resDependencies' = <<>>
  /\ resStack' = <<Call(resInput)>>
  /\ resSteps' = resSteps + 1
  /\ UNCHANGED <<resSchemas, resVariables, resInput, resProps, resResult>>

\* a test that finds no name visited
Visited_Never(visited, name) == FALSE

\* context.visited.has(schema.extends)
Visited(visited, name) == name \in visited

\* the error of a missing base under the code of a cycle
MissingSchema_AsCircular(name) == [code |-> "CIRCULAR_DEPENDENCY", schema |-> name]

MissingSchema(name) == [code |-> "MISSING_SCHEMA", schema |-> name]
CircularDependency(name, path) == [code |-> "CIRCULAR_DEPENDENCY", schema |-> name, path |-> path]

\* resolveSchema from "if (schema.extends)" to the recursive call, or to
\* processSchema when there is none
ResolveSchema_extends ==
  /\ resPc = "running"
  /\ resStack[Len(resStack)].phase = "extends"
  /\ LET top == Len(resStack)
         ext == Field(resStack[top].schema, "extends")
         name == ext.s[1]
     IN IF ~Truthy(ext)
          THEN /\ resStack' = [resStack EXCEPT ![top].phase = "apply"]
               /\ UNCHANGED <<resVisited, resPath, resDependencies, resErrors>>
          ELSE IF name \notin DOMAIN resSchemas
            THEN /\ resErrors' = Append(resErrors, MissingSchema(name))
                 /\ resStack' = [resStack EXCEPT ![top].phase = "apply"]
                 /\ UNCHANGED <<resVisited, resPath, resDependencies>>
            ELSE IF Visited(resVisited, name)
              THEN /\ resErrors' = Append(resErrors, CircularDependency(name, resPath))
                   /\ resStack' = [resStack EXCEPT ![top].phase = "apply"]
                   /\ UNCHANGED <<resVisited, resPath, resDependencies>>
              ELSE /\ resVisited' = resVisited \cup {name}
                   /\ resPath' = Append(resPath, name)
                   /\ resDependencies' = Append(resDependencies, name)
                   /\ resStack' = Append([resStack EXCEPT ![top].phase = "base"],
                                         Call(resSchemas[name]))
                   /\ UNCHANGED resErrors
  /\ resSteps' = resSteps + 1
  /\ UNCHANGED <<resSchemas, resVariables, resInput, resProps, resPc, resResult>>

\* resolveSchema from processSchema to its return, and in the caller the merge
\* of the returned baseConfig, visited.delete and path.pop; resolve returns when
\* the outermost call does
ResolveSchema_apply ==
  /\ resPc = "running"
  /\ resStack[Len(resStack)].phase = "apply"
  /\ LET top == Len(resStack)
         call == resStack[top]
         currentConfig == Resolver_processSchema(call.schema, resProps)
         resolved == Resolver_resolveVariables(Resolver_deepMerge(call.config, currentConfig),
                                               resVariables, FALSE)
         raw == Resolver_deepMerge(call.raw, currentConfig)
     IN /\ resErrors' = resErrors \o resolved.errors
        /\ IF top = 1
             THEN /\ resResult' = [config |-> resolved.config, raw |-> raw, base |-> call.base]
                  /\ resPc' = "done"
                  /\ resStack' = <<>>
                  /\ UNCHANGED <<resVisited, resPath>>
             ELSE /\ resStack' = [SubSeq(resStack, 1, top - 1) EXCEPT ![top - 1] =
                        [@ EXCEPT !.config = Resolver_deepMerge(@, resolved.config),
                                  !.raw = Resolver_deepMerge(@, raw),
                                  !.base = resolved.config,
                                  !.phase = "apply"]]
                  /\ resVisited' = resVisited \ {Field(resStack[top - 1].schema, "extends").s[1]}
                  /\ resPath' = SubSeq(resPath, 1, Len(resPath) - 1)
                  /\ UNCHANGED <<resPc, resResult>>
  /\ resSteps' = resSteps + 1
  /\ UNCHANGED <<resSchemas, resVariables, resInput, resProps, resDependencies>>

(***************************************************************************)
(* Lexer (vitest.setup.ts).  A string is the sequence of its characters;   *)
(* position counts from 0 as in the source.  A token is its type and its   *)
(* value; line and column are left out, no step reads them.                *)
(***************************************************************************)
Lowercase ==
  {"a", "b", "c", "d", "e", "f", "g", "h", "i", "j", "k", "l", "m",
   "n", "o", "p", "q", "r", "s", "t", "u", "v", "w", "x", "y", "z"}
Uppercase ==
  {"A", "B", "C", "D", "E", "F", "G", "H", "I", "J", "K", "L", "M",
   "N", "O", "P", "Q", "R", "S", "T", "U", "V", "W", "X", "Y", "Z"}
Digits == {"0", "1", "2", "3", "4", "5", "6", "7", "8", "9"}

\* /[a-zA-Z_$]/, /[a-zA-Z0-9_$]/ and /[0-9]/; none matches the empty string
Lexer_isIdentifierStart(char) == char \in Lowercase \cup Uppercase \cup {"_", "$"}
Lexer_isIdentifierChar(char) == char \in Lowercase \cup Uppercase \cup Digits \cup {"_", "$"}
Lexer_isDigit(char) == char \in Digits

Lexer_isEOF(input, position) == position >= Len(input)

\* this.input[this.position + offset] || ''
Lexer_peekChar(input, position, offset) ==
  IF position + offset < Len(input) THEN input[position + offset + 1] ELSE ""

Lexer_currentChar(input, position) == Lexer_peekChar(input, position, 0)

Lexer_advance(input, position, count) ==
  IF position + count <= Len(input) THEN position + count ELSE Len(input)

Token(type, value) == [type |-> type, value |-> value]
EOFToken == Token("EOF", <<>>)

\* what a read and nextToken return: the token, or null, and the position reached
Read(token, position) == [token |-> token, position |-> position]

RECURSIVE Lexer_skipWhitespace(_, _)
Lexer_skipWhitespace(input, position) ==
  IF ~Lexer_isEOF(input, position)
     /\ Lexer_currentChar(input, position) \in {"\n", " ", "\t", "\r"}
    THEN Lexer_skipWhitespace(input, Lexer_advance(input, position, 1))
    ELSE position

\* String.prototype.trim, on the white space the model's texts hold
RECURSIVE TrimStart(_)
TrimStart(value) ==
  IF value # <<>> /\ value[1] \in {"\n", " ", "\t", "\r"} THEN TrimStart(Tail(value)) ELSE value

RECURSIVE TrimEnd(_)
TrimEnd(value) ==
  IF value # <<>> /\ value[Len(value)] \in {"\n", " ", "\t", "\r"}
    THEN TrimEnd(SubSeq(value, 1, Len(value) - 1))
    ELSE value

Trim(value) == TrimEnd(TrimStart(value))

\* while (!isEOF() && currentChar() !== '\n') advance()
RECURSIVE LineEnd(_, _)
LineEnd(input, position) ==
  IF ~Lexer_isEOF(input, position) /\ Lexer_currentChar(input, position) # "\n"
    THEN LineEnd(input, position + 1)
    ELSE position

\* the characters from position from (included) to position to (excluded)
Slice(input, from, to) == SubSeq(input, from + 1, to)

Lexer_readComment(input, position) ==
  LET start == Lexer_advance(input, position, 1)
      end == LineEnd(input, start)
  IN Read(Token("COMMENT", Trim(Slice(input, start, end))), end)

Lexer_readLineComment(input, position) ==
  LET start == Lexer_advance(input, position, 2)
      end == LineEnd(input, start)
  IN Read(Token("COMMENT", Trim(Slice(input, start, end))), end)

\* the loop of readInterpolation
RECURSIVE Interpolation(_, _, _, _)
Interpolation(input, position, depth, value) ==
  IF Lexer_isEOF(input, position) \/ depth <= 0
    THEN [value |-> value, position |-> position]
    ELSE LET char == Lexer_currentChar(input, position)
             d == IF char = "{" THEN depth + 1 ELSE IF char = "}" THEN depth - 1 ELSE depth
         IN Interpolation(input, position + 1, d, IF d > 0 THEN Append(value, char) ELSE value)

Lexer_readInterpolation(input, position) ==
  LET body == Interpolation(input, Lexer_advance(input, position, 2), 1, <<>>)
  IN Read(Token("INTERPOLATION", Trim(body.value)), body.position)

\* while (!isEOF() && isIdentifierChar(currentChar())) advance()
RECURSIVE IdentifierEnd(_, _)
IdentifierEnd(input, position) ==
  IF ~Lexer_isEOF(input, position) /\ Lexer_isIdentifierChar(Lexer_currentChar(input, position))
    THEN IdentifierEnd(input, position + 1)
    ELSE position

Lexer_readVariable(input, position) ==
  LET start == Lexer_advance(input, position, 1)
      end == IdentifierEnd(input, start)
  IN Read(Token("VARIABLE", <<"$">> \o Slice(input, start, end)), end)

\* the loop of readString
RECURSIVE StringBody(_, _, _, _)
StringBody(input, position, quote, value) ==
  IF Lexer_isEOF(input, position) \/ Lexer_currentChar(input, position) = quote
    THEN [value |-> value, position |-> position]
    ELSE IF Lexer_currentChar(input, position) = "\\"
      THEN LET p == Lexer_advance(input, position, 1)
               escaped == Lexer_currentChar(input, p)
           IN IF Lexer_isEOF(input, p)
                THEN [value |-> value, position |-> p]
                ELSE StringBody(input, p + 1, quote,
                                Append(value, IF escaped = "n" THEN "\n"
                                              ELSE IF escaped = "t" THEN "\t"
                                              ELSE IF escaped = "r" THEN "\r"
                                              ELSE escaped))
      ELSE StringBody(input, position + 1, quote,
                      Append(value, Lexer_currentChar(input, position)))

Lexer_readString(input, position, quote) ==
  LET body == StringBody(input, Lexer_advance(input, position, 1), quote, <<>>)
      closed == ~Lexer_isEOF(input, body.position)
                /\ Lexer_currentChar(input, body.position) = quote
  IN Read(Token("STRING", body.value),
          IF closed THEN body.position + 1 ELSE body.position)

\* while (!isEOF() && (isDigit(currentChar()) || currentChar() === '.')) advance()
RECURSIVE NumberEnd(_, _)
NumberEnd(input, position) ==
  IF ~Lexer_isEOF(input, position)
     /\ (Lexer_isDigit(Lexer_currentChar(input, position))
         \/ Lexer_currentChar(input, position) = ".")
    THEN NumberEnd(input, position + 1)
    ELSE position

Lexer_readNumber(input, position) ==
  LET end == NumberEnd(input, position)
  IN Read(Token("NUMBER", Slice(input, position, end)), end)

Lexer_readIdentifier(input, position) ==
  LET end == IdentifierEnd(input, position)
  IN Read(Token("PROPERTY", Slice(input, position, end)), end)

\* match looks ahead and leaves the position where it is
Lexer_match(input, position, str) ==
  /\ \A i \in 1..Len(str) : Lexer_peekChar(input, position, i - 1) = str[i]
  /\ ~Lexer_isIdentifierChar(Lexer_peekChar(input, position, Len(str)))

KeywordTrue == <<"t", "r", "u", "e">>
KeywordFalse == <<"f", "a", "l", "s", "e">>

\* the branches of nextToken that read one character
Symbols1 == {":", ";", ".", "(", ")"}
SymbolType(char) ==
  CASE char = ":" -> "COLON"
    [] char = ";" -> "SEMICOLON"
    [] char = "." -> "DOT"
    [] char = "(" -> "LPAREN"
    [] char = ")" -> "RPAREN"

\* an unknown character that is left where it is
Lexer_skipUnknown_Stay(input, position) == Read(Null, position)

\* "this.advance(); return null"
Lexer_skipUnknown(input, position) == Read(Null, Lexer_advance(input, position, 1))

Lexer_nextToken(input, position) ==
  LET char == Lexer_currentChar(input, position)
      next == Lexer_peekChar(input, position, 1)
  IN IF char = "#" THEN Lexer_readComment(input, position)
     ELSE IF char = "/" /\ next = "/" THEN Lexer_readLineComment(input, position)
     ELSE IF char = "$" /\ next = "{" THEN Lexer_readInterpolation(input, position)
     ELSE IF char = "$"
       THEN IF next = "."
              THEN Read(Token("VARIABLE", <<"$">>), Lexer_advance(input, position, 1))
              ELSE IF Lexer_isIdentifierStart(next)
                THEN Lexer_readVariable(input, position)
                ELSE Read(Token("VARIABLE", <<"$">>), Lexer_advance(input, position, 1))
     ELSE IF char \in {"\"", "'"} THEN Lexer_readString(input, position, char)
     ELSE IF Lexer_isDigit(char) THEN Lexer_readNumber(input, position)
     ELSE IF Lexer_match(input, position, KeywordTrue)
       THEN Read(Token("BOOLEAN", KeywordTrue), position)
     ELSE IF Lexer_match(input, position, KeywordFalse)
       THEN Read(Token("BOOLEAN", KeywordFalse), position)
     ELSE IF char \in Symbols1
       THEN Read(Token(SymbolType(char), <<char>>), Lexer_advance(input, position, 1))
     ELSE IF Lexer_isIdentifierStart(char) THEN Lexer_readIdentifier(input, position)
     ELSE Lexer_skipUnknown(input, position)

\* "if (tokens.length > 1000) break"
TokenLimit == 1000

(***************************************************************************)
(* Lexer.tokenize, one step for each turn of its loop.  The turn that      *)
(* leaves the loop, by a break or because the loop condition fails, also   *)
(* pushes the EOF token and returns.                                       *)
(***************************************************************************)
LexerIdle ==
  /\ lexInput = <<>>
  /\ lexPosition = 0
  /\ lexTokens = <<>>
  /\ lexPc = "idle"

\* new Lexer(input), and tokenize up to its loop
LexerInit(inputs) ==
  /\ lexInput \in inputs
  /\ lexPosition = 0
  /\ lexTokens = <<>>
  /\ lexPc = "scan"

\* one turn of the loop
LexTurn ==
  /\ lexPc = "scan"
  /\ ~Lexer_isEOF(lexInput, lexPosition)
  /\ LET startPosition == Lexer_skipWhitespace(lexInput, lexPosition)
         read == Lexer_nextToken(lexInput, startPosition)
         tokens == IF read.token # Null THEN Append(lexTokens, read.token) ELSE lexTokens
     IN IF Lexer_isEOF(lexInput, startPosition)
          THEN /\ lexPosition' = startPosition
               /\ lexTokens' = Append(lexTokens, EOFToken)
               /\ lexPc' = "done"
          ELSE /\ lexPosition' = read.position
               /\ IF (read.token = Null /\ read.position = startPosition)
                     \/ Len(tokens) > TokenLimit
                    THEN lexTokens' = Append(tokens, EOFToken) /\ lexPc' = "done"
                    ELSE lexTokens' = tokens /\ lexPc' = "scan"
  /\ UNCHANGED lexInput

\* the loop condition fails
LexEnd ==
  /\ lexPc = "scan"
  /\ Lexer_isEOF(lexInput, lexPosition)
  /\ lexTokens' = Append(lexTokens, EOFToken)
  /\ lexPc' = "done"
  /\ UNCHANGED <<lexInput, lexPosition>>

(***************************************************************************)
(* Parser (parser/parser.ts).  position counts from 0 as in the source.    *)
(* The strings the parser hands on are written as the sequence of their    *)
(* symbols, the form the Resolver's model reads: a run of letters, digits  *)
(* and underscores is one symbol, any other character is a symbol of its   *)
(* own ("$primary" is <<"$", "primary">>).                                 *)
(***************************************************************************)
IsWordChar(char) == char \in Lowercase \cup Uppercase \cup Digits \cup {"_"}

\* word says whether the last symbol of done is a run that may grow
RECURSIVE SymbolsOf(_, _, _)
SymbolsOf(chars, done, word) ==
  IF chars = <<>> THEN done
  ELSE IF IsWordChar(chars[1]) /\ word
    THEN SymbolsOf(Tail(chars), [done EXCEPT ![Len(done)] = @ \o chars[1]], TRUE)
    ELSE SymbolsOf(Tail(chars), Append(done, chars[1]), IsWordChar(chars[1]))

JSString(chars) == Str(SymbolsOf(chars, <<>>, FALSE))

\* the characters of a text, as one TLA+ string: the key of an object
RECURSIVE Join(_)
Join(chars) == IF chars = <<>> THEN "" ELSE chars[1] \o Join(Tail(chars))

\* parts.join('.')
RECURSIVE PathJoin(_)
PathJoin(parts) ==
  IF parts = <<>> THEN <<>>
  ELSE IF Len(parts) = 1 THEN parts[1]
  ELSE parts[1] \o <<".">> \o PathJoin(Tail(parts))

\* path.split('.')
RECURSIVE PathSplit(_, _)
PathSplit(chars, part) ==
  IF chars = <<>> THEN <<part>>
  ELSE IF chars[1] = "." THEN <<part>> \o PathSplit(Tail(chars), <<>>)
  ELSE PathSplit(Tail(chars), Append(part, chars[1]))

DigitSeq == <<"0", "1", "2", "3", "4", "5", "6", "7", "8", "9">>
DigitValue(char) == (CHOOSE i \in 1..Len(DigitSeq) : DigitSeq[i] = char) - 1

RECURSIVE DigitsValue(_, _)
DigitsValue(chars, acc) ==
  IF chars = <<>> THEN acc ELSE DigitsValue(Tail(chars), acc * Len(DigitSeq) + DigitValue(chars[1]))

RECURSIVE DigitsEnd(_, _)
DigitsEnd(chars, i) ==
  IF i <= Len(chars) /\ Lexer_isDigit(chars[i]) THEN DigitsEnd(chars, i + 1) ELSE i

RECURSIVE DropZeros(_)
DropZeros(chars) ==
  IF chars # <<>> /\ chars[Len(chars)] = "0"
    THEN DropZeros(SubSeq(chars, 1, Len(chars) - 1))
    ELSE chars

\* a number with decimals: its whole part and the digits after the point
Dec(n, frac) == [n |-> n, frac |-> frac]

\* parseFloat of the value of a NUMBER token, which starts with a digit and
\* holds digits and points: the longest prefix that is a decimal literal
ParseFloat(chars) ==
  LET whole == DigitsEnd(chars, 1)
      fracEnd == IF whole <= Len(chars) THEN DigitsEnd(chars, whole + 1) ELSE whole
      frac == DropZeros(SubSeq(chars, whole + 1, fracEnd - 1))
      n == DigitsValue(SubSeq(chars, 1, whole - 1), 0)
  IN IF frac = <<>> THEN Num(n) ELSE Dec(n, frac)

\* this.tokens[this.position] || this.tokens[this.tokens.length - 1]
Parser_currentToken(tokens, position) ==
  IF position < Len(tokens) THEN tokens[position + 1] ELSE tokens[Len(tokens)]

Parser_isEOF(tokens, position) ==
  position >= Len(tokens) \/ Parser_currentToken(tokens, position).type = "EOF"

Parser_advance(tokens, position) == IF position < Len(tokens) THEN position + 1 ELSE position

\* expect: whether the token was there, and the position after it
Parser_expect(tokens, position, type) ==
  IF Parser_currentToken(tokens, position).type = type
    THEN [ok |-> TRUE, position |-> Parser_advance(tokens, position)]
    ELSE [ok |-> FALSE, position |-> position]

\* what a parse function returns: its value and the position reached, or
\* the message of the Error it threw and the position it threw at
Parsed(value, position) == [value |-> value, position |-> position, error |-> ""]
Threw(message, position) == [value |-> Null, position |-> position, error |-> message]

\* the loop of parsePropertyPath
RECURSIVE PathParts(_, _, _)
PathParts(tokens, position, parts) ==
  IF Parser_currentToken(tokens, position).type = "DOT"
    THEN LET p == Parser_advance(tokens, position)
         IN IF Parser_currentToken(tokens, p).type = "PROPERTY"
              THEN PathParts(tokens, Parser_advance(tokens, p),
                             Append(parts, Parser_currentToken(tokens, p).value))
              ELSE Threw("Expected property name after dot", p)
    ELSE Parsed(parts, position)

Parser_parsePropertyPath(tokens, position) ==
  IF Parser_currentToken(tokens, position).type = "PROPERTY"
    THEN LET read == PathParts(tokens, Parser_advance(tokens, position),
                               <<Parser_currentToken(tokens, position).value>>)
         IN IF read.error # "" THEN read ELSE Parsed(PathJoin(read.value), read.position)
    ELSE Parsed(<<>>, position)

\* the loop of parseFunctionCall
RECURSIVE FunctionArgs(_, _, _)
FunctionArgs(tokens, position, args) ==
  IF ~Parser_isEOF(tokens, position) /\ Parser_currentToken(tokens, position).type # "RPAREN"
    THEN LET token == Parser_currentToken(tokens, position)
             p == Parser_advance(tokens, position)
             a == IF token.type = "STRING" THEN Append(args, JSString(token.value))
                  ELSE IF token.type = "NUMBER" THEN Append(args, ParseFloat(token.value))
                  ELSE args
         IN IF Parser_currentToken(tokens, p).type = "RPAREN"
              THEN Parsed(a, p)
              ELSE FunctionArgs(tokens, p, a)
    ELSE Parsed(args, position)

FunctionCall(name, args) == Obj([type |-> Str(<<"function">>), name |-> name, args |-> Arr(args)])

Parser_parseFunctionCall(tokens, position, funcName) ==
  LET open == Parser_expect(tokens, position, "LPAREN")
      read == FunctionArgs(tokens, open.position, <<>>)
      close == Parser_expect(tokens, read.position, "RPAREN")
  IN IF ~open.ok THEN Threw("Expected '(' after function name", position)
     ELSE IF ~close.ok THEN Threw("Expected ')' after function arguments", read.position)
     ELSE Parsed(FunctionCall(JSString(funcName), read.value), close.position)

\* the loop of parseValue that collects a JSONPath
RECURSIVE JSONPathParts(_, _, _)
JSONPathParts(tokens, position, parts) ==
  IF ~Parser_isEOF(tokens, position) /\ Parser_currentToken(tokens, position).type = "PROPERTY"
    THEN LET p == Parser_advance(tokens, position)
             collected == Append(parts, Parser_currentToken(tokens, position).value)
         IN IF ~Parser_isEOF(tokens, p) /\ Parser_currentToken(tokens, p).type = "DOT"
              THEN JSONPathParts(tokens, Parser_advance(tokens, p), collected)
              ELSE Parsed(collected, p)
    ELSE Parsed(parts, position)

\* a comment in the place of a value gives null; an interpolation gives the
\* function of its text
Parser_parseValue(tokens, position) ==
  LET token == Parser_currentToken(tokens, position)
      next == Parser_advance(tokens, position)
  IN CASE token.type = "COMMENT" -> Parsed(Null, next)
       [] token.type = "PROPERTY" ->
            IF ~Parser_isEOF(tokens, next) /\ Parser_currentToken(tokens, next).type = "LPAREN"
              THEN Parser_parseFunctionCall(tokens, next, token.value)
              ELSE Parsed(JSString(token.value), next)
       [] token.type = "STRING" -> Parsed(JSString(token.value), next)
       [] token.type = "NUMBER" -> Parsed(ParseFloat(token.value), next)
       [] token.type = "BOOLEAN" -> Parsed(Bool(token.value = KeywordTrue), next)
       [] token.type = "VARIABLE" ->
            IF position + 1 < Len(tokens) /\ tokens[position + 2].type = "DOT"
              THEN LET read == JSONPathParts(tokens, Parser_advance(tokens, next), <<token.value>>)
                   IN Parsed(JSString(PathJoin(read.value)), read.position)
              ELSE Parsed(JSString(token.value), next)
       [] token.type = "INTERPOLATION" -> Parsed(Fn(Join(token.value)), next)
       [] OTHER -> Threw("Unexpected token type: " \o token.type, position)

\* the loop of parseProperty that passes the comments before the value
RECURSIVE SkipComments(_, _)
SkipComments(tokens, position) ==
  IF ~Parser_isEOF(tokens, position) /\ Parser_currentToken(tokens, position).type = "COMMENT"
    THEN SkipComments(tokens, Parser_advance(tokens, position))
    ELSE position

PropertyNode(path, value) == [type |-> "property", path |-> path, value |-> value]
CommentNode(value) == [type |-> "comment", value |-> value]

\* parseProperty: the node, or null when the statement is given up
Parser_parseProperty(tokens, position) ==
  LET path == Parser_parsePropertyPath(tokens, position)
      colon == Parser_expect(tokens, path.position, "COLON")
      value == Parser_parseValue(tokens, SkipComments(tokens, colon.position))
      semicolon == Parser_expect(tokens, value.position, "SEMICOLON")
  IN IF path.error # "" THEN path
     ELSE IF ~colon.ok THEN Parsed(Null, path.position)
     ELSE IF value.error # "" THEN value
     ELSE IF value.value = Null THEN Parsed(Null, semicolon.position)
     ELSE Parsed(PropertyNode(path.value, value.value), semicolon.position)

\* the loop of setConfigValue and its last assignment; reading or writing a
\* property of a string, a number or a boolean throws a TypeError.  A
\* function keeps the properties written on it out of the model.
RECURSIVE SetConfig(_, _, _)
SetConfig(current, parts, value) ==
  IF IsFn(current) THEN current
  ELSE IF ~IsObj(current) THEN Thrown
  ELSE IF Len(parts) = 1 THEN ObjWith(current, Join(parts[1]), value)
  ELSE LET part == Join(parts[1])
           child == IF part \in ObjKeys(current) THEN current.o[part] ELSE EmptyObj
           below == SetConfig(child, Tail(parts), value)
       IN IF below = Thrown THEN Thrown ELSE ObjWith(current, part, below)

\* an assignment under the whole path as one key
Parser_setConfigValue_Flat(config, path, value) == ObjWith(config, Join(path), value)

Parser_setConfigValue(config, path, value) == SetConfig(config, PathSplit(path, <<>>), value)

Parser_extractMetadata(config) ==
  LET source == Field(config, "source")
      extends == Field(config, "extends")
      map == Field(config, "map")
      m1 == IF IsStr(source) THEN ObjWith(EmptyObj, "source", source) ELSE EmptyObj
      m2 == IF IsStr(extends) THEN ObjWith(m1, "extends", extends) ELSE m1
  IN IF IsObj(map) THEN ObjWith(m2, "map", map) ELSE m2

ParseError(message) == [message |-> message, code |-> "PARSE_ERROR"]

(***************************************************************************)
(* Parser.parse, one step for each turn of its loop, after tokenize has    *)
(* returned; the step that finds the loop condition false extracts the     *)
(* metadata and returns.                                                   *)
(***************************************************************************)
ParserIdle ==
  /\ parPosition = 0
  /\ parNodes = <<>>
  /\ parConfig = EmptyObj
  /\ parErrors = <<>>
  /\ parMetadata = EmptyObj
  /\ parPc = "idle"

\* parse, from the return of tokenize to its loop
ParseStart ==
  /\ parPc = "idle"
  /\ lexPc = "done"
  /\ parPosition' = 0
  /\ parErrors' = <<>>
  /\ parNodes' = <<>>
  /\ parConfig' = EmptyObj
  /\ parMetadata' = EmptyObj
  /\ parPc' = "parse"

\* one turn of the loop
ParseTurn ==
  /\ parPc = "parse"
  /\ ~Parser_isEOF(lexTokens, parPosition)
  /\ LET token == Parser_currentToken(lexTokens, parPosition)
         property == Parser_parseProperty(lexTokens, parPosition)
         set == Parser_setConfigValue(parConfig, property.value.path, property.value.value)
     IN CASE token.type = "COMMENT" ->
               /\ parNodes' = Append(parNodes, CommentNode(token.value))
               /\ parPosition' = Parser_advance(lexTokens, parPosition)
               /\ UNCHANGED <<parConfig, parErrors>>
          [] token.type = "PROPERTY" /\ property.error # "" ->
               /\ parErrors' = Append(parErrors, ParseError(property.error))
               /\ parPosition' = Parser_advance(lexTokens, property.position)
               /\ UNCHANGED <<parNodes, parConfig>>
          [] token.type = "PROPERTY" /\ property.error = "" /\ property.value = Null ->
               /\ parPosition' = property.position
               /\ UNCHANGED <<parNodes, parConfig, parErrors>>
          [] token.type = "PROPERTY" /\ property.error = "" /\ property.value # Null ->
               /\ parNodes' = Append(parNodes, property.value)
               /\ IF set = Thrown
                    THEN /\ parErrors' = Append(parErrors, ParseError("TypeError"))
                         /\ parPosition' = Parser_advance(lexTokens, property.position)
                         /\ UNCHANGED parConfig
                    ELSE /\ parConfig' = set
                         /\ parPosition' = property.position
                         /\ UNCHANGED parErrors
          [] OTHER ->
               /\ parPosition' = Parser_advance(lexTokens, parPosition)
               /\ UNCHANGED <<parNodes, parConfig, parErrors>>
  /\ UNCHANGED <<parMetadata, parPc>>

\* the loop condition fails: extractMetadata, and parse returns
ParseEnd ==
  /\ parPc = "parse"
  /\ Parser_isEOF(lexTokens, parPosition)
  /\ parMetadata' = Parser_extractMetadata(parConfig)
  /\ parPc' = "done"
  /\ UNCHANGED <<parPosition, parNodes, parConfig, parErrors>>

(***************************************************************************)
(* Validator (validator.ts).  A call returns its list of errors or throws: *)
(* [thrown, errors].  A property read on null or undefined throws a        *)
(* TypeError.                                                              *)
(***************************************************************************)
ValReturn(errors) == [thrown |-> FALSE, errors |-> errors]
ValThrow == [thrown |-> TRUE, errors |-> <<>>]

IsNullish(v) == v = Null \/ v = Undefined

InvalidProperty(property, message) ==
  [code |-> "INVALID_PROPERTY", property |-> property, message |-> message]
InvalidResponse(message) == [code |-> "INVALID_PROPERTY", message |-> message]

ValidTypes == {Str(<<t>>) : t \in {"bar", "line", "pie", "doughnut", "radar", "scatter", "bubble"}}

\* the errors of the source of a schema, an object
Validator_sourceErrors(src) ==
  IF Field(src, "type") = Str(<<"graphql">>)
    THEN (IF ~Truthy(Field(src, "url"))
            THEN <<InvalidProperty(<<"source">>, "GraphQL url")>> ELSE <<>>)
         \o (IF ~IsStr(Field(src, "query")) \/ Trim(Field(src, "query").s) = <<>>
               THEN <<InvalidProperty(<<"source">>, "GraphQL query")>> ELSE <<>>)
  ELSE IF Field(src, "type") = Str(<<"websocket">>)
    THEN (IF ~Truthy(Field(src, "url"))
            THEN <<InvalidProperty(<<"source">>, "WebSocket url")>> ELSE <<>>)
    ELSE (IF ~Truthy(Field(src, "url"))
            THEN <<InvalidProperty(<<"source">>, "REST url")>> ELSE <<>>)

\* Object.entries of an object or an array, as the sequence of [k, v]
ObjectEntries(v) ==
  IF IsObj(v) THEN LET keys == KeySeq(ObjKeys(v))
                   IN [i \in 1..Len(keys) |-> [k |-> keys[i], v |-> v.o[keys[i]]]]
  ELSE IF IsArr(v) THEN [i \in 1..Len(v.a) |-> [k |-> NumStr(i - 1), v |-> v.a[i]]]
  ELSE <<>>

RECURSIVE Validator_mapErrors(_)
Validator_mapErrors(entries) ==
  IF entries = <<>> THEN <<>>
  ELSE LET path == Head(entries).v
       IN (IF ~IsStr(path) \/ ~StartsWithPath(path.s)
             THEN <<InvalidProperty(<<"map", Head(entries).k>>, "Invalid JSONPath")>> ELSE <<>>)
          \o Validator_mapErrors(Tail(entries))

Validator_validateSchema(schema) ==
  IF IsNullish(schema) THEN ValThrow
  ELSE LET type == Field(schema, "type")
           source == Field(schema, "source")
           map == Field(schema, "map")
       IN ValReturn(
            (IF Truthy(type) /\ type \notin ValidTypes
               THEN <<InvalidProperty(<<"type">>, "Invalid chart type")>> ELSE <<>>)
            \o (IF Truthy(source) /\ ~IsStr(source) /\ TypeofObject(source)
                  THEN Validator_sourceErrors(source) ELSE <<>>)
            \o (IF Truthy(map) THEN Validator_mapErrors(ObjectEntries(map)) ELSE <<>>))

\* the callback of datasets.forEach
Validator_datasetErrors(dataset, index) ==
  (IF ~Truthy(Field(dataset, "label")) \/ ~IsStr(Field(dataset, "label"))
     THEN <<InvalidResponse(<<"Dataset", NumStr(index), "label">>)>> ELSE <<>>)
  \o (IF ~Truthy(Field(dataset, "data")) \/ ~IsArr(Field(dataset, "data"))
        THEN <<InvalidResponse(<<"Dataset", NumStr(index), "data">>)>> ELSE <<>>)

RECURSIVE Validator_forEachDataset(_, _)
Validator_forEachDataset(datasets, index) ==
  IF index >= Len(datasets) THEN <<>>
  ELSE Validator_datasetErrors(datasets[index + 1], index)
         \o Validator_forEachDataset(datasets, index + 1)

Validator_validateAtomicResponse(response) ==
  IF IsNullish(response) THEN ValThrow
  ELSE LET labels == Field(response, "labels")
           datasets == Field(response, "datasets")
           labelsErrors == IF ~Truthy(labels) \/ ~IsArr(labels)
                             THEN <<InvalidResponse(<<"labels">>)>> ELSE <<>>
       IN IF ~Truthy(datasets) \/ ~IsArr(datasets)
            THEN ValReturn(labelsErrors \o <<InvalidResponse(<<"datasets">>)>>)
            ELSE IF \E i \in 1..Len(datasets.a) : IsNullish(datasets.a[i])
              THEN ValThrow
              ELSE ValReturn(labelsErrors \o Validator_forEachDataset(datasets.a, 0))

NoValidation == [op |-> "none"]

ValidatorInit(inputs) ==
  /\ valInput \in inputs
  /\ valResult = NoValidation
  /\ valPc = "ready"

ValidatorIdle ==
  /\ valInput = Undefined
  /\ valResult = NoValidation
  /\ valPc = "idle"

ValidateSchema ==
  /\ valPc = "ready"
  /\ valResult' = [op |-> "validateSchema", ret |-> Validator_validateSchema(valInput)]
  /\ valPc' = "done"
  /\ UNCHANGED valInput

ValidateAtomicResponse ==
  /\ valPc = "ready"
  /\ valResult' = [op |-> "validateAtomicResponse",
                   ret |-> Validator_validateAtomicResponse(valInput)]
  /\ valPc' = "done"
  /\ UNCHANGED valInput

(***************************************************************************)
(* The interval effect of useChartConfig (useChartConfig.ts:377-391): the  *)
(* timer of a chart instance whose schema has a websocket source.  A       *)
(* chartConfig has here, besides the fields loadChart reads, schemaSource  *)
(* (chartConfig.schema.source) and resolvedSource (resolved.config.source, *)
(* which a schema without a source of its own inherits from its base).     *)
(***************************************************************************)
DefaultRefreshIntervalMs == 2000
Websocket == Str(<<"websocket">>)

\* a ?? b
Coalesce(a, b) == IF IsNullish(a) THEN b ELSE a

IsWebSocket(c) ==
  /\ Truthy(c.schemaSource)
  /\ TypeofObject(c.schemaSource)
  /\ Field(c.schemaSource, "type") = Websocket

WsIntervalMs(c) ==
  IF IsWebSocket(c)
    THEN Coalesce(Field(c.schemaSource, "refreshIntervalMs"), Num(DefaultRefreshIntervalMs)).n
    ELSE 0

\* the interval effect of the render with chartConfig c, run at time t: the
\* timer it leaves
IntervalEffect(c, t) ==
  IF ~IsWebSocket(c) \/ WsIntervalMs(c) <= 0
    THEN Null
    ELSE [due |-> t + WsIntervalMs(c), interval |-> WsIntervalMs(c), loadChart |-> c]

NoStart == [by |-> "none", at |-> 0]
\* history: the latest run was started by this, at this time
StartedBy(by) == starts' = [by |-> by, at |-> now]

TimerInit ==
  /\ mounted = TRUE
  /\ timer = Null
  /\ starts = NoStart

TimerIdle ==
  /\ mounted = FALSE
  /\ timer = Null
  /\ starts = <<>>

\* a render of the mounted instance with a new chartConfig prop
StreamRender(c, max) ==
  /\ mounted
  /\ renders < max
  /\ Render(c)
  /\ UNCHANGED <<timerVars, now>>

\* the effects of a commit: the cleanup of the interval effect, the load effect
\* and the interval effect, whose dependency loadChart has changed
StreamEffect ==
  /\ mounted
  /\ Effect
  /\ timer' = IntervalEffect(chartConfig, now)
  /\ StartedBy("effect")
  /\ UNCHANGED <<mounted, now>>

\* refetch() of some render
StreamRefetch(c) ==
  /\ mounted
  /\ Refetch(c)
  /\ StartedBy("refetch")
  /\ UNCHANGED <<mounted, timer, now>>

\* the interval elapses: () => loadChart()
TimerFire ==
  /\ timer # Null
  /\ now = timer.due
  /\ LoadChart(timer.loadChart)
  /\ timer' = [timer EXCEPT !.due = @ + timer.interval]
  /\ StartedBy("timer")
  /\ UNCHANGED <<effectPending, mounted, now>>

\* the instance is torn down: the cleanup of the interval effect runs, the
\* effects not yet run are dropped
Unmount ==
  /\ mounted
  /\ mounted' = FALSE
  /\ timer' = Null
  /\ effectPending' = FALSE
  /\ UNCHANGED <<chartConfig, loadCharts, renders, loadIdRef, configKeyRef,
                 lastSourceFingerprintRef, sourceVersionRef, hookData, hookConfig, hookError,
                 hookLoading, hookRuns, hookLast, starts, now>>

\* time passes, by one unit up to max or to the instant the timer is due; a
\* timer that is due fires before time passes on
StreamTick(max) ==
  /\ IF timer = Null THEN TRUE ELSE now < timer.due
  /\ \/ now < max /\ now' = now + 1
     \/ timer # Null /\ now' = timer.due
  /\ UNCHANGED <<hookVars, timerVars>>

(***************************************************************************)
(* SpecLRU: any sequence of calls on one LRUCache.                         *)
(***************************************************************************)
InitLRU == LRUInit /\ TTLIdle /\ RestIdle /\ HookIdle /\ ResolverIdle /\ LexerIdle /\ ParserIdle /\ MapperIdle /\ ValidatorIdle /\ TimerIdle /\ now = 0

NextLRU ==
  \/ \E key \in LRUKeys : LRUGet(key) /\ UNCHANGED otherThanLRU
  \/ \E key \in LRUKeys, value \in LRUValues : LRUSet(key, value) /\ UNCHANGED otherThanLRU
  \/ \E key \in LRUKeys : LRUDelete(key) /\ UNCHANGED otherThanLRU
  \/ LRUClear /\ UNCHANGED otherThanLRU

SpecLRU == InitLRU /\ [][NextLRU]_vars

(***************************************************************************)
(* SpecTTL: any sequence of calls on one TTLCache, with time passing.      *)
(***************************************************************************)
InitTTL == TTLInit /\ LRUIdle /\ RestIdle /\ HookIdle /\ ResolverIdle /\ LexerIdle /\ ParserIdle /\ MapperIdle /\ ValidatorIdle /\ TimerIdle /\ now = 0

NextTTL ==
  \/ \E key \in TTLKeys : TTLGet(key) /\ UNCHANGED otherThanTTL
  \/ \E key \in TTLKeys, value \in TTLValues, ttlArg \in TTLArgs :
       TTLSet(key, value, ttlArg) /\ UNCHANGED otherThanTTL
  \/ \E key \in TTLKeys : TTLHas(key) /\ UNCHANGED otherThanTTL
  \/ \E key \in TTLKeys : TTLDelete(key) /\ UNCHANGED otherThanTTL
  \/ TTLClear /\ UNCHANGED otherThanTTL
  \/ Tick(MaxNow) /\ UNCHANGED <<ttlVars, otherThanTTL>>

SpecTTL == InitTTL /\ [][NextTTL]_vars

(***************************************************************************)
(* SpecRest: one RestDataProvider, its fetch calls overlapping freely,     *)
(* with time passing.                                                      *)
(***************************************************************************)
InitRest == RestInit /\ LRUIdle /\ TTLIdle /\ HookIdle /\ ResolverIdle /\ LexerIdle /\ ParserIdle /\ MapperIdle /\ ValidatorIdle /\ TimerIdle /\ now = 0

NextRest ==
  \/ \E f \in 1..MaxFetches, call \in RestCalls : RestFetch(f, call) /\ UNCHANGED otherThanRest
  \/ \E f \in 1..MaxFetches, data \in RestPayloads : RestRespond(f, data) /\ UNCHANGED otherThanRest
  \/ \E f \in 1..MaxFetches, kind \in RestFailures : RestFail(f, kind) /\ UNCHANGED otherThanRest
  \/ \E f \in 1..MaxFetches : RestAbortAttempt(f) /\ UNCHANGED otherThanRest
  \/ \E f \in 1..MaxFetches : RestWake(f) /\ UNCHANGED otherThanRest
  \/ Tick(MaxRestNow) /\ UNCHANGED <<restVars, otherThanRest>>

SpecRest == InitRest /\ [][NextRest]_vars

(***************************************************************************)
(* SpecHook: one chart instance: renders with new props, the effect,       *)
(* refetch calls, and the continuations of the runs in any order.          *)
(***************************************************************************)
InitHook == HookInit /\ LRUIdle /\ TTLIdle /\ RestIdle /\ ResolverIdle /\ LexerIdle /\ ParserIdle /\ MapperIdle /\ ValidatorIdle /\ TimerIdle /\ now = 0

NextHook ==
  \/ \E c \in ChartConfigs : Render(c) /\ UNCHANGED otherThanHook
  \/ Effect /\ UNCHANGED otherThanHook
  \/ \E c \in ChartConfigs : Refetch(c) /\ UNCHANGED otherThanHook
  \/ \E r \in 1..MaxLoads : FetchResolve(r) /\ UNCHANGED otherThanHook
  \/ \E r \in 1..MaxLoads : FetchReject(r) /\ UNCHANGED otherThanHook
  \/ \E r \in 1..MaxLoads : CreateResolve(r) /\ UNCHANGED otherThanHook
  \/ \E r \in 1..MaxLoads : CreateReject(r) /\ UNCHANGED otherThanHook

SpecHook == InitHook /\ [][NextHook]_vars

(***************************************************************************)
(* SpecResolver: one call of resolve on a registry, a variable set, props  *)
(* and a schema.                                                           *)
(***************************************************************************)
InitResolver == ResolverInit /\ LRUIdle /\ TTLIdle /\ RestIdle /\ HookIdle /\ LexerIdle /\ ParserIdle /\ MapperIdle /\ ValidatorIdle /\ TimerIdle /\ now = 0

NextResolver ==
  \/ Resolve /\ UNCHANGED otherThanResolver
  \/ ResolveSchema_extends /\ UNCHANGED otherThanResolver
  \/ ResolveSchema_apply /\ UNCHANGED otherThanResolver

SpecResolver == InitResolver /\ [][NextResolver]_vars

(***************************************************************************)
(* SpecLexer: tokenize on one text: every text of at most MaxTextLen       *)
(* characters of LexChars, and the texts of KeywordTexts.                  *)
(***************************************************************************)
MaxTextLen == 3

LexChars == {"a", "1", ".", "$", "{", "}", "\"", "\\", "#", "/", " ", "\n", ":", ";", "@", "("}

RECURSIVE Texts(_)
Texts(n) == IF n = 0 THEN {<<>>} ELSE Texts(n - 1) \cup {Append(t, c) : t \in Texts(n - 1), c \in LexChars}

TextNameTrue == <<"n", "a", "m", "e", ":", " ", "t", "r", "u", "e", ";">>
TextNameFalse == <<"n", "a", "m", "e", ":", " ", "f", "a", "l", "s", "e", ";">>
TextTrueFoo == <<"t", "r", "u", "e", "f", "o", "o">>

KeywordTexts ==
  {KeywordTrue, TextTrueFoo, <<"f", "a", "l", "s", "e", "1">>, TextNameTrue, TextNameFalse,
   <<"@", "t", "r", "u", "e", "@", "x">>}

InitLexer ==
  /\ LexerInit(Texts(MaxTextLen) \cup KeywordTexts)
  /\ ParserIdle /\ LRUIdle /\ TTLIdle /\ RestIdle /\ HookIdle /\ ResolverIdle /\ MapperIdle /\ ValidatorIdle /\ TimerIdle /\ now = 0

NextLexer ==
  \/ LexTurn /\ UNCHANGED <<parVars, resVars, otherThanDSL>>
  \/ LexEnd /\ UNCHANGED <<parVars, resVars, otherThanDSL>>

SpecLexer == InitLexer /\ [][NextLexer]_vars

(***************************************************************************)
(* SpecDSL: a DSL text is tokenized and parsed, chartSchema builds the     *)
(* schema from what parse returned, and a Resolver with some variable set  *)
(* resolves it.  The texts are the single statements "path: value;" of     *)
(* Literals at Paths, the pairs of statements of FirstStatements and       *)
(* SecondStatements, and the texts of OtherTexts.                          *)
(***************************************************************************)
PathColor == <<"c", "o", "l", "o", "r">>
PathNested == <<"o", ".", "x", ".", "y">>
PathB == <<"b">>
Paths == {PathColor, PathNested}

\* the literals: their text, their kind and the value they denote
Literal(text, kind, value) == [text |-> text, kind |-> kind, value |-> value]
LitBar == Literal(<<"b", "a", "r">>, "identifier", Str(<<"bar">>))
LitRed == Literal(<<"\"", "r", "e", "d", "\"">>, "string", Str(<<"red">>))
LitTwoWords == Literal(<<"'", "a", " ", "b", "'">>, "string", Str(<<"a", " ", "b">>))
LitDollar == Literal(<<"\"", "$", "p", "r", "i", "m", "a", "r", "y", "\"">>, "string",
                     Str(<<"$", "primary">>))
LitJSONPath == Literal(<<"\"", "$", ".", "m", "\"">>, "string", Str(<<"$", ".", "m">>))
Lit42 == Literal(<<"4", "2">>, "number", Num(42))
LitPi == Literal(<<"3", ".", "1", "4">>, "number", Dec(3, <<"1", "4">>))
LitMinus5 == Literal(<<"-", "5">>, "number", Num(0 - 5))
LitTrue == Literal(KeywordTrue, "boolean", Bool(TRUE))
LitFalse == Literal(KeywordFalse, "boolean", Bool(FALSE))
Literals ==
  {LitBar, LitRed, LitTwoWords, LitDollar, LitJSONPath, Lit42, LitPi, LitMinus5, LitTrue, LitFalse}

\* the statement "path: value;"
Statement(path, literal) == path \o <<":", " ">> \o literal.text \o <<";">>

SingleStatements == {[path |-> p, literal |-> l] : p \in Paths, l \in Literals}

\* the documents of two statements: the first carries each kind of value,
\* the second is on another path or on the same one
FirstStatements == {[path |-> PathColor, literal |-> l] : l \in {LitBar, LitRed, Lit42, LitTrue, LitFalse}}
SecondStatements == {[path |-> p, literal |-> l] : p \in {PathColor, PathB}, l \in {Lit42, LitRed}}
Pairs == {<<f, s>> : f \in FirstStatements, s \in SecondStatements}
PairText(pair) ==
  Statement(pair[1].path, pair[1].literal) \o <<"\n">> \o Statement(pair[2].path, pair[2].literal)

SourceCall ==
  <<"s", "o", "u", "r", "c", "e", ":", " ", "r", "e", "s", "t", "(", "\"", "/", "a", "\"", ")", ";">>
SourceString == <<"s", "o", "u", "r", "c", "e", ":", " ", "\"", "/", "a", "\"", ";">>
ExtendsBase == <<"e", "x", "t", "e", "n", "d", "s", ":", " ", "b", "a", "s", "e", ";">>
MapLabels == <<"m", "a", "p", ".", "l", ":", " ", "$", ".", "l", ";">>
OtherTexts ==
  {SourceCall, SourceString, ExtendsBase, MapLabels,
   ExtendsBase \o <<" ">> \o SourceString \o <<" ">> \o MapLabels,
   \* a comment, a variable, an interpolation
   <<"#", " ", "c", "\n">> \o Statement(PathColor, Literal(<<"$", "p", "r", "i", "m", "a", "r", "y">>,
                                                       "variable", Str(<<"$", "primary">>))),
   <<"t", ":", " ", "$", "{", "t", "i", "t", "l", "e", "}", ";">>,
   \* a statement with no value, one with no colon, a path that ends in a dot,
   \* a path through a string
   <<"a", ":", " ", ";", " ", "b", ":", " ", "1", ";">>,
   <<"a", " ", "b", ":", " ", "1", ";">>,
   <<"a", ".", ":", " ", "1", ";">>,
   <<"a", ":", " ", "x", ";", " ", "a", ".", "b", ":", " ", "1", ";">>,
   <<"a", ":", " ", "#", "c", "\n", ";">>}

DSLTexts ==
  {Statement(s.path, s.literal) : s \in SingleStatements} \cup {PairText(p) : p \in Pairs}
    \cup OtherTexts

\* chartSchema: {...parsed.config, ...parsed.ast.metadata}
ChartSchema(config, metadata) ==
  Obj([k \in ObjKeys(config) \cup ObjKeys(metadata) |->
         IF k \in ObjKeys(metadata) THEN metadata.o[k] ELSE config.o[k]])

\* new Resolver(), setVariables, and the schema of chartSchema handed to resolve
DSLResolve ==
  /\ parPc = "done"
  /\ resPc = "idle"
  /\ resSchemas' = <<>>
  /\ resVariables' \in VariableSets
  /\ resProps' \in PropsSets
  /\ resInput' = ChartSchema(parConfig, parMetadata)
  /\ resPc' = "ready"
  /\ UNCHANGED <<resStack, resVisited, resPath, resDependencies, resErrors, resResult, resSteps>>

InitDSL ==
  /\ LexerInit(DSLTexts)
  /\ ParserIdle /\ ResolverIdle /\ LRUIdle /\ TTLIdle /\ RestIdle /\ HookIdle /\ MapperIdle /\ ValidatorIdle /\ TimerIdle /\ now = 0

NextDSL ==
  \/ LexTurn /\ UNCHANGED <<parVars, resVars, otherThanDSL>>
  \/ LexEnd /\ UNCHANGED <<parVars, resVars, otherThanDSL>>
  \/ ParseStart /\ UNCHANGED <<lexVars, resVars, otherThanDSL>>
  \/ ParseTurn /\ UNCHANGED <<lexVars, resVars, otherThanDSL>>
  \/ ParseEnd /\ UNCHANGED <<lexVars, resVars, otherThanDSL>>
  \/ DSLResolve /\ UNCHANGED <<lexVars, parVars, otherThanDSL>>
  \/ Resolve /\ UNCHANGED otherThanResolver
  \/ ResolveSchema_extends /\ UNCHANGED otherThanResolver
  \/ ResolveSchema_apply /\ UNCHANGED otherThanResolver

SpecDSL == InitDSL /\ [][NextDSL]_vars

(***************************************************************************)
(* SpecMapper: one call of JSONPathMapper.map on a payload and a path      *)
(* table of at most MaxEntries entries.                                    *)
(***************************************************************************)
MaxEntries == 2

Feb == Str(<<"Feb">>)
MapperPayloads ==
  {Obj([months |-> Arr(<<Str(<<"Jan">>), Feb>>),
        charts |-> Arr(<<Obj([label |-> Str(<<"Sales">>), values |-> Arr(<<Num(100), Num(200)>>)])>>)]),
   Obj([x |-> Obj([k |-> Num(1)]), y |-> Num(2), n |-> Null]),
   Obj([x |-> Str(<<"v">>), y |-> Num(0)])}

TargetPaths == {<<"labels">>, <<"datasets">>, <<"a">>, <<"a", ".", "b">>, <<"m", ".", "labels">>}
SourcePaths ==
  {<<"$", ".", "months">>, <<"$", ".", "charts">>, <<"$", ".", "x">>, <<"$", ".", "y">>,
   <<"$", ".", "n">>, <<"$", ".", "missing">>, <<"$", ".", "x", ".", "k">>,
   <<"$", ".", "missing", ".", "k">>, <<"$", ".", "charts", "[", "0", "]", ".", "label">>}

MapperEntries == {[target |-> t, source |-> s] : t \in TargetPaths, s \in SourcePaths}

\* the tables: no key twice
RECURSIVE MapperTables(_)
MapperTables(n) ==
  IF n = 0 THEN {<<>>}
  ELSE MapperTables(n - 1)
         \cup {Append(t, e) : t \in {u \in MapperTables(n - 1) : Len(u) = n - 1},
                              e \in MapperEntries}

DistinctTargets(table) ==
  \A i, j \in 1..Len(table) : i # j => table[i].target # table[j].target

MapperInit ==
  /\ \E payload \in MapperPayloads :
       /\ mapHeap = Load(payload, <<>>).heap
       /\ mapData = Load(payload, <<>>).v
  /\ mapHeap0 = mapHeap
  /\ mapTable \in {t \in MapperTables(MaxEntries) : DistinctTargets(t)}
  /\ mapIndex = 0
  /\ mapResult = Undefined
  /\ mapPc = "ready"

InitMapper ==
  /\ MapperInit
  /\ LRUIdle /\ TTLIdle /\ RestIdle /\ HookIdle /\ ResolverIdle /\ LexerIdle /\ ParserIdle
  /\ ValidatorIdle /\ TimerIdle /\ now = 0

NextMapper ==
  \/ MapCall /\ UNCHANGED otherThanMapper
  \/ MapEntry /\ UNCHANGED otherThanMapper
  \/ MapReturn /\ UNCHANGED otherThanMapper

SpecMapper == InitMapper /\ [][NextMapper]_vars

(***************************************************************************)
(* SpecCaches: one LRUCache and one TTLCache of any capacity; a behaviour  *)
(* makes its calls on one of the two, with time passing for the TTLCache.  *)
(***************************************************************************)
InitCaches == LRUInit /\ TTLInit /\ RestIdle /\ HookIdle /\ ResolverIdle /\ LexerIdle /\ ParserIdle /\ MapperIdle /\ ValidatorIdle /\ TimerIdle /\ now = 0

LRUCacheInUse == ttlLast = NoCall /\ now = 0
TTLCacheInUse == lruLast = NoCall

NextCaches ==
  \/ LRUCacheInUse /\ \E key \in LRUKeys : LRUGet(key) /\ UNCHANGED otherThanLRU
  \/ LRUCacheInUse /\ \E key \in LRUKeys, value \in LRUValues : LRUSet(key, value) /\ UNCHANGED otherThanLRU
  \/ LRUCacheInUse /\ \E key \in LRUKeys : LRUDelete(key) /\ UNCHANGED otherThanLRU
  \/ LRUCacheInUse /\ LRUClear /\ UNCHANGED otherThanLRU
  \/ TTLCacheInUse /\ \E key \in TTLKeys : TTLGet(key) /\ UNCHANGED otherThanTTL
  \/ TTLCacheInUse /\ \E key \in TTLKeys, value \in TTLValues, ttlArg \in TTLArgs :
       TTLSet(key, value, ttlArg) /\ UNCHANGED otherThanTTL
  \/ TTLCacheInUse /\ \E key \in TTLKeys : TTLHas(key) /\ UNCHANGED otherThanTTL
  \/ TTLCacheInUse /\ \E key \in TTLKeys : TTLDelete(key) /\ UNCHANGED otherThanTTL
  \/ TTLCacheInUse /\ TTLClear /\ UNCHANGED otherThanTTL
  \/ TTLCacheInUse /\ Tick(MaxNow) /\ UNCHANGED <<ttlVars, otherThanTTL>>

SpecCaches == InitCaches /\ [][NextCaches]_vars

(***************************************************************************)
(* SpecValidator: one call of validateSchema or of validateAtomicResponse  *)
(* on a schema, a response, or something that is neither.                  *)
(***************************************************************************)
WithOptional(obj, k, v) == IF v = Undefined THEN obj ELSE ObjWith(obj, k, v)

ValidatorTypes == {Undefined, Str(<<"bar">>), Str(<<"gauge">>)}
ValidatorSources ==
  {Undefined, Null, Str(<<"/a">>),
   Obj([url |-> Str(<<"/a">>)]),
   Obj([type |-> Str(<<"graphql">>), url |-> Str(<<"/g">>), query |-> Str(<<"q">>)]),
   Obj([type |-> Str(<<"graphql">>), query |-> Str(<<" ">>)]),
   Obj([type |-> Str(<<"websocket">>)])}
ValidatorMaps ==
  {Undefined,
   Obj([labels |-> Str(<<"$", ".", "l">>)]),
   Obj([labels |-> Str(<<"l">>)]),
   Obj([labels |-> Num(1)])}
ValidatorSchemas ==
  {WithOptional(WithOptional(WithOptional(EmptyObj, "type", t), "source", src), "map", m) :
     t \in ValidatorTypes, src \in ValidatorSources, m \in ValidatorMaps}

GoodDataset == Obj([label |-> Str(<<"Sales">>), data |-> Arr(<<Num(1)>>)])
ValidatorLabels == {Undefined, Str(<<"x">>), Jan}
ValidatorDatasets ==
  {Undefined, Arr(<<>>), Arr(<<GoodDataset>>), Arr(<<Null>>), Arr(<<Num(5)>>),
   Arr(<<Obj([label |-> Str(<<"Sales">>)])>>), Arr(<<GoodDataset, Undefined>>)}
ValidatorResponses ==
  {WithOptional(WithOptional(EmptyObj, "labels", l), "datasets", d) :
     l \in ValidatorLabels, d \in ValidatorDatasets}

ValidatorInputs == {Undefined, Null, Num(5)} \cup ValidatorSchemas \cup ValidatorResponses

InitValidator ==
  /\ ValidatorInit(ValidatorInputs)
  /\ LRUIdle /\ TTLIdle /\ RestIdle /\ HookIdle /\ ResolverIdle /\ LexerIdle /\ ParserIdle
  /\ MapperIdle /\ TimerIdle /\ now = 0

NextValidator ==
  \/ ValidateSchema /\ UNCHANGED otherThanValidator
  \/ ValidateAtomicResponse /\ UNCHANGED otherThanValidator

SpecValidator == InitValidator /\ [][NextValidator]_vars

(***************************************************************************)
(* SpecStream: one chart instance with its interval timer: renders, the    *)
(* effects, refetch calls, the timer, the teardown, the continuations of   *)
(* the runs, with time passing.                                            *)
(***************************************************************************)
MaxStreamNow == 1
MaxStreamRenders == 1

StreamSource(interval) ==
  WithOptional(Obj([type |-> Websocket, url |-> Str(<<"ws://a">>)]), "refreshIntervalMs", interval)

StreamConfigs ==
  {[source |-> "ws", type |-> "line", errors |-> FALSE, callback |-> 1,
    schemaSource |-> StreamSource(Undefined), resolvedSource |-> StreamSource(Undefined)],
   [source |-> "ws2", type |-> "line", errors |-> FALSE, callback |-> 1,
    schemaSource |-> StreamSource(Num(2)), resolvedSource |-> StreamSource(Num(2))],
   \* the schema extends a base whose source is a stream descriptor
   [source |-> "base", type |-> "line", errors |-> FALSE, callback |-> 1,
    schemaSource |-> Undefined, resolvedSource |-> StreamSource(Num(2))],
   [source |-> "/a", type |-> "bar", errors |-> FALSE, callback |-> 1,
    schemaSource |-> Str(<<"/a">>), resolvedSource |-> Str(<<"/a">>)]}

InitStream ==
  /\ HookInitOf(StreamConfigs)
  /\ TimerInit
  /\ LRUIdle /\ TTLIdle /\ RestIdle /\ ResolverIdle /\ LexerIdle /\ ParserIdle /\ MapperIdle
  /\ ValidatorIdle /\ now = 0

NextStream ==
  \/ \E c \in StreamConfigs : StreamRender(c, MaxStreamRenders) /\ UNCHANGED otherThanStream
  \/ StreamEffect /\ UNCHANGED otherThanStream
  \/ \E c \in StreamConfigs : StreamRefetch(c) /\ UNCHANGED otherThanStream
  \/ TimerFire /\ UNCHANGED otherThanStream
  \/ Unmount /\ UNCHANGED otherThanStream
  \/ \E r \in 1..MaxLoads : FetchResolve(r) /\ UNCHANGED <<timerVars, now, otherThanStream>>
  \/ \E r \in 1..MaxLoads : FetchReject(r) /\ UNCHANGED <<timerVars, now, otherThanStream>>
  \/ \E r \in 1..MaxLoads : CreateResolve(r) /\ UNCHANGED <<timerVars, now, otherThanStream>>
  \/ \E r \in 1..MaxLoads : CreateReject(r) /\ UNCHANGED <<timerVars, now, otherThanStream>>
  \/ StreamTick(MaxStreamNow) /\ UNCHANGED otherThanStream

SpecStream == InitStream /\ [][NextStream]_vars

(***************************************************************************)
(* C1: with caching enabled, when a fetch starts right after an earlier    *)
(* fetch resolved from the network, within the TTL, and the two            *)
(* descriptors have the same method, URL, params, body and cache-bust      *)
(* value, the second fetch makes no network call and returns the response  *)
(* of the first, so the network is called for the first fetch only; when   *)
(* only the cache-bust value differs, the second fetch of a fresh provider *)
(* calls the network too.                                                  *)
(***************************************************************************)
DescriptorOf(src) ==
  <<OrElse(Field(src, "method"), Get), Field(src, "url"), Field(src, "params"), Field(src, "body")>>

Sequential(f, g) ==
  /\ restConfig.cacheEnabled
  /\ restFetch[g].pc # "idle"
  /\ restFetch[g].source # Undefined
  /\ restFetch[g].afterKind = "resolved"
  /\ restFetch[g].afterF = f
  /\ restFetch[f].calls >= 1
  /\ restFetch[g].withinTTL

C1_SecondFetchServedFromCache ==
  \A f \in 1..MaxFetches, g \in 1..MaxFetches :
    (f < g /\ Sequential(f, g) /\ DescriptorOf(restFetch[f].source) = DescriptorOf(restFetch[g].source))
      => IF Field(restFetch[f].source, "_cacheBust") = Field(restFetch[g].source, "_cacheBust")
           THEN /\ restFetch[g].pc = "resolved"
                /\ restFetch[g].calls = 0
                /\ restFetch[g].result = restFetch[f].result
           ELSE (f = 1 /\ g = 2) => restFetch[g].calls >= 1

C1_Witness ==
  /\ Sequential(1, 2)
  /\ restFetch[1].calls = 1
  /\ DescriptorOf(restFetch[1].source) = DescriptorOf(restFetch[2].source)
  /\ Field(restFetch[1].source, "_cacheBust") = Num(1)
  /\ Field(restFetch[2].source, "_cacheBust") = Num(1)
  /\ restFetch[2].pc = "resolved"
  /\ restFetch[2].calls = 0
  /\ restFetch[2].result = restFetch[1].result

(***************************************************************************)
(* C2: a fetch of a provider configured with retry count N, N >= 0, whose  *)
(* attempts all fail with an error that is not a cancellation, has made    *)
(* exactly N + 1 network calls when it rejects, and rejects with the error *)
(* of the last of them.                                                    *)
(***************************************************************************)
C2_AttemptsAreRetryCountPlusOne ==
  \A f \in 1..MaxFetches :
    (/\ restFetch[f].pc = "rejected"
     /\ restFetch[f].error.name = "Error"
     /\ restFetch[f].error.kind \in RestFailures
     /\ restConfigIn.retryCount # Undefined)
      => /\ restFetch[f].calls = restConfigIn.retryCount.n + 1
         /\ restFetch[f].error.call = restFetch[f].calls

(***************************************************************************)
(* C3: a fetch one of whose attempts was cancelled has rejected with that  *)
(* AbortError, made no network call after the cancelled one, waits for no  *)
(* backoff, and stored nothing in the cache.                               *)
(***************************************************************************)
C3_CancellationIsNeverRetried ==
  \A f \in 1..MaxFetches :
    restFetch[f].abortCall # 0
      => /\ restFetch[f].pc = "rejected"
         /\ restFetch[f].error = AbortError(restFetch[f].abortCall)
         /\ restFetch[f].calls = restFetch[f].abortCall
         /\ restFetch[f].attempt = restFetch[f].abortCall - 1
         /\ ~restFetch[f].wrote

C3_Witness ==
  \E f \in 1..MaxFetches :
    /\ restFetch[f].abortCall >= 2
    /\ restFetch[f].abortCall <= restConfig.retryCount
    /\ restFetch[f].pc = "rejected"
    /\ restFetch[f].error.name = "AbortError"

(***************************************************************************)
(* C6: a run of loadChart that completes, with success or failure, when    *)
(* its loadId is loadIdRef.current and configKeyRef.current is the key it  *)
(* captured at its start sets data, config and error to its outcome; a run *)
(* that completes when either differs leaves data, config and error as     *)
(* they were.                                                              *)
(***************************************************************************)
C6_OnlyLatestRunWrites ==
  hookLast.op = "settle"
    => IF hookLast.loadId = hookLast.latest /\ hookLast.startConfigKey = hookLast.configKey
         THEN hookLast.after =
                IF hookLast.ok THEN <<hookLast.value.data, hookLast.value.config, Null>>
                               ELSE <<Null, Null, hookLast.value>>
         ELSE hookLast.after = hookLast.before

C6_Witness ==
  /\ hookLast.op = "settle"
  /\ hookLast.ok
  /\ hookLast.loadId = hookLast.latest
  /\ hookLast.startConfigKey # hookLast.configKey
  /\ hookLast.after = hookLast.before
  /\ hookLast.before[1] # Null
  /\ \E r \in 1..MaxLoads : hookRuns[r].pc \in {"fetch", "create"}

(***************************************************************************)
(* C7: resolve terminates, within two steps for each call of resolveSchema *)
(* and at most one call more than there are registered schemas; when it    *)
(* has returned, the errors hold a CIRCULAR_DEPENDENCY error exactly when  *)
(* the extends links followed from the resolved schema reach a name that   *)
(* leads back to itself.                                                   *)
(***************************************************************************)
\* the registered schema a schema extends, if any
BaseNames(schema) ==
  IF Truthy(Field(schema, "extends")) /\ Field(schema, "extends").s[1] \in DOMAIN resSchemas
    THEN {Field(schema, "extends").s[1]}
    ELSE {}

RECURSIVE Followed(_, _)
\* the names reached from the names in from by at most k more extends links
Followed(from, k) ==
  IF k = 0 THEN from
  ELSE Followed(from \cup UNION {BaseNames(resSchemas[n]) : n \in from}, k - 1)

ChainRevisits ==
  \E n \in Followed(BaseNames(resInput), Cardinality(SchemaNames)) :
    n \in Followed(BaseNames(resSchemas[n]), Cardinality(SchemaNames))

MaxSteps == 2 * (Cardinality(SchemaNames) + 1) + 1

CircularErrors == {i \in 1..Len(resErrors) : resErrors[i].code = "CIRCULAR_DEPENDENCY"}

\* some step of resolve can be taken: the guards of its three steps
CanStep ==
  \/ resPc = "ready"
  \/ /\ resPc = "running"
     /\ Len(resStack) >= 1
     /\ resStack[Len(resStack)].phase \in {"extends", "apply"}

C7_TerminatesAndReportsCycles ==
  /\ resSteps <= MaxSteps
  /\ resPc # "done" => CanStep
  /\ resPc = "done" => (CircularErrors # {} <=> ChainRevisits)

C7_Witness ==
  /\ resPc = "done"
  /\ resInput = resSchemas["A"]
  /\ resDependencies = <<"B", "C", "A">>
  /\ ChainRevisits
  /\ CircularErrors # {}

(***************************************************************************)
(* C8: when the resolved schema extends a registered base, the resolved    *)
(* config has the keys of the base's config and of the schema's own; a key *)
(* the schema does not set has the base's value, a key whose value is an   *)
(* object on both sides is merged in the same way, and any other key the   *)
(* schema sets has the schema's value.                                     *)
(***************************************************************************)
RECURSIVE Inherits(_, _, _)
Inherits(result, base, child) ==
  /\ IsObj(result)
  /\ ObjKeys(result) = ObjKeys(base) \cup ObjKeys(child)
  /\ \A k \in ObjKeys(result) :
       IF k \notin ObjKeys(child) THEN result.o[k] = base.o[k]
       ELSE IF k \in ObjKeys(base) /\ IsObj(base.o[k]) /\ IsObj(child.o[k])
         THEN Inherits(result.o[k], base.o[k], child.o[k])
         ELSE result.o[k] = child.o[k]

\* the schema's own properties, processed and with their variables resolved
OwnConfig == Resolver_resolveVariables(Resolver_processSchema(resInput, resProps), resVariables, FALSE).config

C8_ChildOverridesBase ==
  (resPc = "done" /\ BaseNames(resInput) # {})
    => /\ resResult.base # Null
       /\ Inherits(resResult.config, resResult.base, OwnConfig)

C8_Witness ==
  /\ resPc = "done"
  /\ BaseNames(resInput) # {}
  /\ resResult.base # Null
  /\ \E k \in ObjKeys(OwnConfig) \cap ObjKeys(resResult.base) :
       /\ IsObj(OwnConfig.o[k])
       /\ IsObj(resResult.base.o[k])
       /\ resResult.config.o[k] # OwnConfig.o[k]
       /\ resResult.config.o[k] # resResult.base.o[k]
  /\ \E k \in ObjKeys(OwnConfig) \cap ObjKeys(resResult.base) :
       /\ IsArr(OwnConfig.o[k])
       /\ IsArr(resResult.base.o[k])
       /\ OwnConfig.o[k] # resResult.base.o[k]
       /\ resResult.config.o[k] = OwnConfig.o[k]
  /\ \E k \in ObjKeys(resResult.base) \ ObjKeys(OwnConfig) : resResult.config.o[k] = resResult.base.o[k]

(***************************************************************************)
(* C9: when resolve has returned, every property outside map whose value   *)
(* in the merged schema is a string that starts with $ but not with $. and *)
(* names no variable has that string in the resolved config, and the       *)
(* errors hold one VARIABLE_NOT_FOUND error for each such property.        *)
(***************************************************************************)
Unresolved(value) ==
  IsStr(value) /\ StartsWithDollar(value.s) /\ ~StartsWithPath(value.s) /\ ~HasVariable(resVariables, value.s)

RECURSIVE UnresolvedCount(_, _)
\* the number of properties outside map, among keys and below, with an unresolved reference
UnresolvedCount(raw, keys) ==
  IF keys = <<>> THEN 0
  ELSE LET value == raw.o[Head(keys)]
       IN (IF Head(keys) = "map" THEN 0
           ELSE IF Unresolved(value) THEN 1
           ELSE IF IsObj(value) THEN UnresolvedCount(value, KeySeq(ObjKeys(value)))
           ELSE 0)
          + UnresolvedCount(raw, Tail(keys))

RECURSIVE LeftLiteral(_, _)
LeftLiteral(raw, config) ==
  \A k \in ObjKeys(raw) \ {"map"} :
    /\ Unresolved(raw.o[k]) => Field(config, k) = raw.o[k]
    /\ IsObj(raw.o[k]) => LeftLiteral(raw.o[k], Field(config, k))

VariableErrors == {i \in 1..Len(resErrors) : resErrors[i].code = "VARIABLE_NOT_FOUND"}

C9_OneErrorPerUnresolvedReference ==
  resPc = "done"
    => /\ LeftLiteral(resResult.raw, resResult.config)
       /\ Cardinality(VariableErrors) = UnresolvedCount(resResult.raw, KeySeq(ObjKeys(resResult.raw)))

(***************************************************************************)
(* C10: when resolve has returned, every string of the merged schema that  *)
(* starts with $. and every value under a key map is the same in the       *)
(* resolved config, and no VARIABLE_NOT_FOUND error is about such a string *)
(* or about a property under map.                                          *)
(***************************************************************************)
RECURSIVE PathsKept(_, _)
PathsKept(raw, config) ==
  /\ IsObj(config)
  /\ ObjKeys(config) = ObjKeys(raw)
  /\ \A k \in ObjKeys(raw) :
       IF k = "map" THEN config.o[k] = raw.o[k]
       ELSE IF IsStr(raw.o[k]) /\ StartsWithPath(raw.o[k].s) THEN config.o[k] = raw.o[k]
       ELSE IF IsObj(raw.o[k]) THEN PathsKept(raw.o[k], config.o[k])
       ELSE TRUE

RECURSIVE EntriesBelow(_)
\* the pairs <<key, string>> of the string-valued properties of an object and below
EntriesBelow(v) ==
  {<<k, v.o[k].s>> : k \in {j \in ObjKeys(v) : IsStr(v.o[j])}}
    \cup UNION {EntriesBelow(v.o[k]) : k \in {j \in ObjKeys(v) : IsObj(v.o[j])}}

RECURSIVE EntriesUnderMap(_)
EntriesUnderMap(v) ==
  UNION {IF k = "map" THEN EntriesBelow(v.o[k]) ELSE EntriesUnderMap(v.o[k])
           : k \in {j \in ObjKeys(v) : IsObj(v.o[j])}}

C10_PathsAndMapUntouched ==
  resPc = "done"
    => /\ PathsKept(resResult.raw, resResult.config)
       /\ \A i \in VariableErrors :
            /\ ~StartsWithPath(resErrors[i].message)
            /\ <<resErrors[i].property, resErrors[i].message>> \notin EntriesUnderMap(resResult.raw)

C10_Witness ==
  /\ resPc = "done"
  /\ Len(resDependencies) >= 1
  /\ "primary" \in DOMAIN resVariables
  /\ Field(Field(resResult.config, "map"), "x") = Str(<<"$", "primary">>)
  /\ Field(Field(Field(resResult.config, "map"), "deep"), "y") = Str(<<"$", "inmap">>)
  /\ Field(resResult.config, "title") = Str(<<"$", ".", "title">>)
  /\ Field(resResult.config, "color") = resVariables["primary"]
  /\ VariableErrors # {}

(***************************************************************************)
(* C4: in an LRUCache of capacity c >= 1, a set of a key not yet present   *)
(* while the cache holds c entries removes exactly one entry, the one      *)
(* whose most recent touch (a set, or a get that found it) is the oldest;  *)
(* a set of a present key, a set below capacity and every get remove       *)
(* nothing.                                                                *)
(***************************************************************************)
C4_EvictsLeastRecentlyTouched ==
  /\ (lruLast.op = "set" /\ ~lruLast.present /\ lruLast.sizeBefore = lruCapacity)
       => lruLast.removed = {lruLast.oldest}
  /\ (lruLast.op = "set" /\ (lruLast.present \/ lruLast.sizeBefore < lruCapacity))
       => lruLast.removed = {}
  /\ lruLast.op = "get" => lruLast.removed = {}

\* an overflowing set evicted a key other than the first inserted one, which an
\* earlier touch protected and which is still stored
C4_Witness ==
  /\ lruLast.op = "set"
  /\ lruCapacity >= 2
  /\ lruLast.removed # {}
  /\ lruLast.removed # {lruLast.firstIn}
  /\ MapHas(lruCache, lruLast.firstIn)

(***************************************************************************)
(* C5: a TTLCache entry stored at time T with time-to-live t is returned   *)
(* by a get at any time up to T+t; a get later than T+t returns undefined  *)
(* and removes the entry (size drops by one).                              *)
(***************************************************************************)
C5_ExpiresAfterTTL ==
  (ttlLast.op = "get" /\ ttlLast.entry # Undefined /\ ttlLast.entry.ttl > 0)
    => IF ttlLast.at <= ttlLast.entry.timestamp + ttlLast.entry.ttl
         THEN /\ ttlLast.ret = ttlLast.entry.data
              /\ MapHas(ttlCache, ttlLast.key)
              /\ TTLCache_size(ttlCache) = ttlLast.sizeBefore
         ELSE /\ ttlLast.ret = Undefined
              /\ ~MapHas(ttlCache, ttlLast.key)
              /\ TTLCache_size(ttlCache) = ttlLast.sizeBefore - 1

\* a get found an entry older than its time-to-live and dropped it
C5_Witness ==
  /\ ttlLast.op = "get"
  /\ ttlLast.entry # Undefined
  /\ ttlLast.at > ttlLast.entry.timestamp + ttlLast.entry.ttl
  /\ ttlLast.ret = Undefined
  /\ TTLCache_size(ttlCache) = ttlLast.sizeBefore - 1

(***************************************************************************)
(* C19: tokenize terminates, without throwing, on every text: each turn of *)
(* its loop either leaves the loop or moves forward in the text or adds a  *)
(* token, and neither can go on for ever.  The tokens it returns end with  *)
(* the EOF token, which is nowhere else among them.  A character that      *)
(* starts no token is passed without a token and the loop goes on.        *)
(***************************************************************************)
\* what is left to a turn of the loop: the characters to read and the room
\* under the cap on the tokens
Rank == (Len(lexInput) - lexPosition) + (TokenLimit + 1 - Len(lexTokens))

\* the characters a branch of nextToken starts a token at
TokenStarts ==
  Lowercase \cup Uppercase \cup Digits \cup {"_", "$", "#", "\"", "'", ":", ";", ".", "(", ")"}

StartsNoToken(input, position) ==
  /\ ~Lexer_isEOF(input, position)
  /\ Lexer_currentChar(input, position) \notin TokenStarts
  /\ ~(Lexer_currentChar(input, position) = "/" /\ Lexer_peekChar(input, position, 1) = "/")

EOFOnlyLast(tokens) ==
  /\ tokens # <<>>
  /\ tokens[Len(tokens)] = EOFToken
  /\ \A i \in 1..(Len(tokens) - 1) : tokens[i].type # "EOF"

C19_TokenizeTerminatesWithEOF ==
  /\ [](lexPc = "scan" => Rank > 0 /\ \A i \in 1..Len(lexTokens) : lexTokens[i].type # "EOF")
  /\ [][lexPc = "scan" => lexPc' = "done" \/ (lexPc' = "scan" /\ Rank' < Rank)]_vars
  /\ [](lexPc = "done" => EOFOnlyLast(lexTokens))
  /\ [][lexPc = "scan"
        /\ StartsNoToken(lexInput, Lexer_skipWhitespace(lexInput, lexPosition))
        => /\ lexPosition' = Lexer_skipWhitespace(lexInput, lexPosition) + 1
           /\ lexTokens' = lexTokens
           /\ lexPc' = "scan"]_vars

\* "@a;" was tokenized: the "@" is gone and the rest is there
C19_Witness ==
  /\ lexPc = "done"
  /\ lexInput = <<"@", "a", ";">>
  /\ lexTokens = <<Token("PROPERTY", <<"a">>), Token("SEMICOLON", <<";">>), EOFToken>>

(***************************************************************************)
(* C20: the tokens of "name: true;" and of "name: false;" are a PROPERTY,  *)
(* a COLON, one BOOLEAN, a SEMICOLON and EOF, and "truefoo" is one         *)
(* PROPERTY token.                                                         *)
(***************************************************************************)
TokenTypes(tokens) == [i \in 1..Len(tokens) |-> tokens[i].type]

C20_BooleanIsOneToken ==
  lexPc = "done" =>
    /\ lexInput \in {TextNameTrue, TextNameFalse}
         => TokenTypes(lexTokens) = <<"PROPERTY", "COLON", "BOOLEAN", "SEMICOLON", "EOF">>
    /\ lexInput = TextTrueFoo => lexTokens = <<Token("PROPERTY", TextTrueFoo), EOFToken>>

(***************************************************************************)
(* The value a config holds at a dotted path.                              *)
(***************************************************************************)
RECURSIVE ValueAt(_, _)
ValueAt(value, parts) ==
  IF parts = <<>> THEN value ELSE ValueAt(Field(value, Join(parts[1])), Tail(parts))

At(config, path) == ValueAt(config, PathSplit(path, <<>>))

IsVariableReference(literal) ==
  /\ literal.kind = "string"
  /\ Len(literal.text) >= 3
  /\ literal.text[2] = "$"
  /\ literal.text[3] # "."

\* a number written with a sign, which is no character of a NUMBER token
IsSigned(literal) == literal.kind = "number" /\ literal.text[1] \in {"-", "+"}

C18_MetadataMirrorsConfig ==
  parPc = "done"
    => /\ \A k \in {"extends", "source", "map"} :
            k \in ObjKeys(parConfig) => Field(parMetadata, k) = parConfig.o[k]
       /\ lexInput = SourceCall
            => Field(parMetadata, "source") = FunctionCall(Str(<<"rest">>), <<Str(<<"/", "a">>)>>)

(***************************************************************************)
(* C15: resolve returns, it does not throw; when the schema's extends      *)
(* names a schema the registry does not hold, the errors hold a            *)
(* MISSING_SCHEMA error for that name and the config holds the schema's    *)
(* own properties, resolved as they are for the schema without extends.    *)
(***************************************************************************)
WithoutExtends(schema) == Obj([k \in ObjKeys(schema) \ {"extends"} |-> schema.o[k]])

NoBaseConfig ==
  Resolver_resolveVariables(Resolver_processSchema(WithoutExtends(resInput), resProps),
                            resVariables, FALSE).config

MissingBase ==
  /\ Truthy(Field(resInput, "extends"))
  /\ Field(resInput, "extends").s[1] \notin DOMAIN resSchemas

C15_MissingBaseKeepsOwnProperties ==
  /\ resResult # Thrown
  /\ resPc = "done" /\ MissingBase
       => /\ \E i \in 1..Len(resErrors) :
               /\ resErrors[i].code = "MISSING_SCHEMA"
               /\ resErrors[i].schema = Field(resInput, "extends").s[1]
          /\ ObjKeys(resResult.config) = ObjKeys(resInput)
          /\ \A k \in ObjKeys(NoBaseConfig) : resResult.config.o[k] = NoBaseConfig.o[k]

\* a schema with a missing base and a variable of its own was resolved
C15_Witness ==
  /\ resPc = "done"
  /\ MissingBase
  /\ Field(resInput, "color") = Str(<<"$", "primary">>)
  /\ Field(resResult.config, "color") = Str(<<"blue">>)

(***************************************************************************)
(* C16: when resolve has returned, every property of the schema whose      *)
(* value is a callback, under any key and at any depth, holds in the       *)
(* config the result of the callback on the props, or the callback itself  *)
(* when the call throws.                                                   *)
(***************************************************************************)
RECURSIVE CallbacksInvoked(_, _, _)
CallbacksInvoked(schema, config, props) ==
  \A k \in ObjKeys(schema) :
    IF IsFn(schema.o[k])
      THEN Field(config, k) = (IF CallFn(schema.o[k], props) = Thrown
                                 THEN schema.o[k]
                                 ELSE CallFn(schema.o[k], props))
      ELSE IsObj(schema.o[k]) => CallbacksInvoked(schema.o[k], Field(config, k), props)

C16_EveryCallbackIsInvoked ==
  resPc = "done" => CallbacksInvoked(resInput, resResult.config, resProps)

(***************************************************************************)
(* C17: an attempt that the per-attempt timeout ended, with attempts left  *)
(* under the retry count, is a failed attempt like another: the fetch has  *)
(* not rejected with the AbortError of that attempt, it waits for the      *)
(* backoff or has gone on to a later attempt.                              *)
(***************************************************************************)
C17_TimeoutIsRetried ==
  \A f \in 1..MaxFetches :
    (restFetch[f].abortCall # 0 /\ restFetch[f].abortCall <= restConfig.retryCount)
      => /\ ~(restFetch[f].pc = "rejected" /\ restFetch[f].error = AbortError(restFetch[f].abortCall))
         /\ restFetch[f].pc = "sleep" \/ restFetch[f].calls > restFetch[f].abortCall

(***************************************************************************)
(* C14: the response of every fetch that resolved, with a mapping or       *)
(* without, has labels and datasets, and both are arrays, whatever the     *)
(* payload the server answered.                                            *)
(***************************************************************************)
C14_ResponseHasLabelsAndDatasets ==
  \A f \in 1..MaxFetches :
    restFetch[f].pc = "resolved"
      => /\ IsArr(Field(restFetch[f].result, "labels"))
         /\ IsArr(Field(restFetch[f].result, "datasets"))

(***************************************************************************)
(* C13: map does not throw; when it has returned, the result is a new      *)
(* object that holds, for each entry of the table, the value of the source *)
(* path in the payload at the target path, and nothing at the target path  *)
(* when the source path leads to nothing; and the payload is as it was     *)
(* when map was called.  For the payload {months, charts} and the table    *)
(* {labels: $.months, datasets: $.charts} the result holds the payload's   *)
(* months under labels and its charts under datasets.                      *)
(***************************************************************************)
\* the path that reads a target path
AsSourcePath(target) == <<"$", ".">> \o target

PayloadUnmodified == \A id \in 1..Len(mapHeap0) : mapHeap[id] = mapHeap0[id]

C13_MapCopiesEachEntry ==
  /\ mapPc # "thrown"
  /\ mapPc = "done"
       => /\ mapResult.ref > Len(mapHeap0)
          /\ PayloadUnmodified
          /\ \A i \in 1..Len(mapTable) :
               HeapGetValue(mapHeap, mapResult, AsSourcePath(mapTable[i].target))
                 = HeapGetValue(mapHeap0, mapData, mapTable[i].source)

(***************************************************************************)
(* C25: after any sequence of set, get, delete and clear calls on an       *)
(* LRUCache of capacity c >= 1, and likewise on a TTLCache of that         *)
(* capacity, the number of stored entries never exceeds c.                 *)
(***************************************************************************)
C25_SizeNeverExceedsCapacity ==
  /\ LRUCache_size(lruCache) <= lruCapacity
  /\ TTLCache_size(ttlCache) <= ttlCapacity

\* a key not yet stored has been set in an LRUCache that was full
C25_Witness ==
  /\ lruLast.op = "set"
  /\ ~lruLast.present
  /\ lruLast.sizeBefore = lruCapacity
  /\ lruCapacity >= 2
  /\ LRUCache_size(lruCache) = lruCapacity

(***************************************************************************)
(* C26: TTLCache.has(key) returns true exactly when get(key) at the same   *)
(* instant would return a value: an entry whose age exceeds its            *)
(* time-to-live is not reported as present.                                *)
(***************************************************************************)
C26_HasAgreesWithGet ==
  ttlLast.op = "has"
    => ttlLast.ret = Bool(TTLCache_get(MapSet(<<>>, ttlLast.key, ttlLast.entry),
                                       ttlLast.key, ttlLast.at).ret # Undefined)

(***************************************************************************)
(* C27: a RestDataProvider.fetch that rejects (every attempt failed, or an *)
(* attempt was cancelled) adds no entry to the cache: the step in which a  *)
(* fetch rejects leaves the cache as it was.  So a fetch with the same     *)
(* cache key started right after the rejection of a fetch that went to the *)
(* network, no other fetch having stored a response under that key, issues *)
(* a network call again.                                                   *)
(***************************************************************************)
Rejects(f) == restFetch[f].pc # "rejected" /\ restFetch'[f].pc = "rejected"

RejectionLeavesCache ==
  \A f \in 1..MaxFetches : Rejects(f) => restCache' = restCache

NextAfterRejectionCallsNetwork ==
  \A f, g \in 1..MaxFetches :
    /\ restFetch[f].pc = "rejected"
    /\ restFetch[f].calls >= 1
    /\ restFetch[g].pc # "idle"
    /\ restFetch[g].afterKind = "rejected"
    /\ restFetch[g].afterF = f
    /\ restFetch[g].key = restFetch[f].key
    /\ \A h \in 1..MaxFetches : restFetch[h].wrote => restFetch[h].key # restFetch[f].key
    => restFetch[g].calls >= 1

C27_RejectedFetchCachesNothing ==
  /\ [][RejectionLeavesCache]_vars
  /\ []NextAfterRejectionCallsNetwork

\* with caching enabled, a fetch rejected and the next fetch, of the same cache
\* key, has made a network call
C27_Witness ==
  \E f, g \in 1..MaxFetches :
    /\ restConfig.cacheEnabled
    /\ restFetch[f].pc = "rejected"
    /\ restFetch[f].calls >= 1
    /\ restFetch[g].afterKind = "rejected"
    /\ restFetch[g].afterF = f
    /\ restFetch[g].key = restFetch[f].key
    /\ restFetch[g].calls >= 1

(***************************************************************************)
(* C28: the response returned by RestDataProvider.fetch(descriptor, props, *)
(* pathTable) is always the remote payload reshaped by the pathTable       *)
(* passed to that same call, also when the response is served from the     *)
(* cache after an earlier fetch of the same descriptor made with a         *)
(* different pathTable or with none: every returned response is what the   *)
(* call's own pathTable makes of one of the payloads the server sends.     *)
(***************************************************************************)
Reshaped(data, mapping) ==
  IF mapping # Undefined /\ ObjKeys(mapping) # {}
    THEN RestDataProvider_applyMapping(data, mapping)
    ELSE data

C28_ResponseReshapedByOwnTable ==
  \A f \in 1..MaxFetches :
    restFetch[f].pc = "resolved"
      => restFetch[f].result \in {Reshaped(data, restFetch[f].mapping) : data \in RestPayloads}

(***************************************************************************)
(* C29: if resolving an instance's schema yields a non-empty errors list,  *)
(* that load issues no adapter fetch and, when it is still the instance's  *)
(* current load, ends with error set and with data and config both cleared *)
(* to null.                                                                *)
(***************************************************************************)
ConfigurationErrors(settle) ==
  /\ settle.op = "settle"
  /\ ~settle.ok
  /\ settle.value.message = "Configuration errors"

C29_ResolveErrorsEndTheLoad ==
  /\ \A r \in 1..MaxLoads :
       hookRuns[r].pc # "idle" /\ hookRuns[r].chartConfig.errors
         => hookRuns[r].pc = "done" /\ hookRuns[r].chartData = Null
  /\ ConfigurationErrors(hookLast) /\ hookLast.loadId = hookLast.latest
       => /\ hookLast.after = <<Null, Null, hookLast.value>>
          /\ hookLast.value.loadId = hookLast.loadId

\* a load whose schema resolves with errors has ended, as the current load,
\* after an earlier load had set data and config
C29_Witness ==
  /\ ConfigurationErrors(hookLast)
  /\ hookLast.loadId = hookLast.latest
  /\ hookLast.before[1] # Null
  /\ hookLast.before[2] # Null
  /\ hookData = Null
  /\ hookError # Null

(***************************************************************************)
(* C30: for one chart instance and any interleaving of load starts and     *)
(* completions: while the most recently started load is still in flight    *)
(* the loading flag stays true even if older loads complete, and once the  *)
(* most recently started load has completed (with a result, an error, or a *)
(* discarded result) the loading flag is false.                            *)
(***************************************************************************)
C30_LoadingFollowsLatestLoad ==
  loadIdRef >= 1 => hookLoading = (hookRuns[loadIdRef].pc # "done")

\* an older load has just completed while the latest is in flight
C30_Witness ==
  /\ hookLast.op = "settle"
  /\ hookLast.loadId < hookLast.latest
  /\ hookLast.latest = loadIdRef
  /\ hookRuns[loadIdRef].pc \in {"fetch", "create"}
  /\ hookLoading

(***************************************************************************)
(* C22: per chart instance, the cache-bust counter never decreases and     *)
(* increases by one on each load whose source descriptor fingerprint       *)
(* differs from that of the instance's previous load; consequently a load  *)
(* made after the source descriptor changed (including a change back to an *)
(* earlier descriptor) never receives a response that this instance cached *)
(* before the change.  Here a load without a source counts as no load, the *)
(* counter is looked at when a load goes to its adapter, and a response is *)
(* received from the cache when the cache key is that of a response        *)
(* fetched before.                                                         *)
(***************************************************************************)
HasDescriptor(run) == run.chartConfig.source # ""
Fingerprint(run) == run.chartConfig.source

\* the loads before load r that have a source descriptor
LoadsBefore(runs, r) == {q \in 1..(r - 1) : HasDescriptor(runs[q])}
PreviousLoad(runs, r) == CHOOSE q \in LoadsBefore(runs, r) : \A p \in LoadsBefore(runs, r) : p <= q

\* adapters.normalizeSource of a string source, with the _cacheBust that
\* loadChart adds, and the cache key RestDataProvider.fetch makes of it
HookCacheKey(run) ==
  RestDataProvider_getCacheKey(
    Obj([type |-> Str(<<"rest">>), url |-> Str(<<run.chartConfig.source>>),
         method |-> Str(<<"GET">>), _cacheBust |-> Num(run.cacheBust)]))

\* the run's fetch has resolved: its response is in the cache
HasCached(run) == run.cacheBust > 0 /\ run.chartData # Null

\* load r goes to its adapter in this step
GoesToAdapter(r) == loadIdRef' = r /\ loadIdRef = r - 1 /\ hookRuns'[r].pc = "fetch"

CounterFollowsDescriptor ==
  /\ sourceVersionRef' >= sourceVersionRef
  /\ \A r \in 1..MaxLoads :
       GoesToAdapter(r) /\ LoadsBefore(hookRuns', r) # {}
         /\ Fingerprint(hookRuns'[r]) # Fingerprint(hookRuns'[PreviousLoad(hookRuns', r)])
         => sourceVersionRef' = sourceVersionRef + 1

NoResponseFromBeforeTheChange ==
  \A r \in 1..MaxLoads : \A q \in 1..(r - 1) :
    /\ GoesToAdapter(r)
    /\ HasCached(hookRuns[q])
    /\ \E p \in (q + 1)..r :
         HasDescriptor(hookRuns'[p]) /\ Fingerprint(hookRuns'[p]) # Fingerprint(hookRuns'[q])
    => HookCacheKey(hookRuns'[r]) # HookCacheKey(hookRuns[q])

C22_CacheBustFollowsDescriptor ==
  [][CounterFollowsDescriptor /\ NoResponseFromBeforeTheChange]_vars

(***************************************************************************)
(* C23: when the variable set handed to the resolver is the one            *)
(* ChartProvider builds for a theme, a schema value $primary (likewise     *)
(* $text, $secondary, ...) is replaced during resolution by the theme's    *)
(* corresponding color, with no VARIABLE_NOT_FOUND error, so the load      *)
(* proceeds to fetch and render.                                           *)
(***************************************************************************)
ThemeReferences == {<<"$", name>> : name \in ThemeColorNames}

C23_ThemeVariablesAreSubstituted ==
  resPc = "done" /\ resVariables \in ProviderVariableSets
    => /\ \A i \in 1..Len(resErrors) :
            resErrors[i].code = "VARIABLE_NOT_FOUND" => resErrors[i].message \notin ThemeReferences
       /\ Field(resResult.raw, "color") = Str(<<"$", "primary">>)
            => Field(resResult.config, "color") = resVariables["$primary"]

(***************************************************************************)
(* C21: Validator.validateSchema and Validator.validateAtomicResponse      *)
(* never throw for any input (including a null or undefined payload, and a *)
(* datasets sequence containing null or non-object elements); each always  *)
(* returns a list of errors, empty when the input is well-formed.          *)
(***************************************************************************)
WellFormedSchema(v) ==
  /\ IsObj(v)
  /\ Field(v, "type") \in ValidTypes \cup {Undefined}
  /\ \/ Field(v, "source") \in {Undefined, Null}
     \/ IsStr(Field(v, "source"))
     \/ /\ IsObj(Field(v, "source"))
        /\ Truthy(Field(Field(v, "source"), "url"))
        /\ Field(Field(v, "source"), "type") = Str(<<"graphql">>)
             => /\ IsStr(Field(Field(v, "source"), "query"))
                /\ Trim(Field(Field(v, "source"), "query").s) # <<>>
  /\ \/ Field(v, "map") = Undefined
     \/ /\ IsObj(Field(v, "map"))
        /\ \A k \in ObjKeys(Field(v, "map")) :
             /\ IsStr(Field(v, "map").o[k])
             /\ StartsWithPath(Field(v, "map").o[k].s)

WellFormedResponse(v) ==
  /\ IsObj(v)
  /\ IsArr(Field(v, "labels"))
  /\ \A i \in 1..Len(Field(v, "labels").a) : IsStr(Field(v, "labels").a[i])
  /\ IsArr(Field(v, "datasets"))
  /\ \A i \in 1..Len(Field(v, "datasets").a) :
       LET dataset == Field(v, "datasets").a[i]
       IN /\ IsObj(dataset)
          /\ IsStr(Field(dataset, "label")) /\ Field(dataset, "label").s # <<>>
          /\ IsArr(Field(dataset, "data"))

C21_ValidationNeverThrows ==
  valPc = "done"
    => /\ ~valResult.ret.thrown
       /\ valResult.op = "validateSchema" /\ WellFormedSchema(valInput)
            => valResult.ret.errors = <<>>
       /\ valResult.op = "validateAtomicResponse" /\ WellFormedResponse(valInput)
            => valResult.ret.errors = <<>>

(***************************************************************************)
(* C24: for an instance whose source is a stream descriptor, a new load is *)
(* started at every elapse of the configured refresh interval (2000 ms     *)
(* when none is given) while the instance is mounted, and once the         *)
(* instance is torn down the timer starts no further load.  While the      *)
(* instance is mounted, its effects run and loads left to start, a timer   *)
(* of that interval is set, due no later than one interval after the       *)
(* latest load started; a timer that is due starts a load before time      *)
(* passes on.                                                              *)
(***************************************************************************)
\* "resolved.config.source || chartConfig.schema.source" of loadChart
SourceOf(c) == OrElse(c.resolvedSource, c.schemaSource)
IsStream(c) == IsObj(SourceOf(c)) /\ Field(SourceOf(c), "type") = Websocket
RefreshInterval(c) == Coalesce(Field(SourceOf(c), "refreshIntervalMs"), Num(2000)).n

LoadAtEveryInterval ==
  /\ mounted
  /\ ~effectPending
  /\ loadIdRef \in 1..(MaxLoads - 1)
  /\ IsStream(chartConfig)
  /\ RefreshInterval(chartConfig) > 0
  => /\ timer # Null
     /\ timer.interval = RefreshInterval(chartConfig)
     /\ now <= timer.due
     /\ timer.due <= starts.at + RefreshInterval(chartConfig)

NoTimerLoadAfterTeardown ==
  loadIdRef' # loadIdRef /\ starts'.by = "timer" => mounted

C24_StreamReloadsEveryInterval ==
  /\ []LoadAtEveryInterval
  /\ [][NoTimerLoadAfterTeardown]_vars

=============================================================================
